---------------------------- MODULE Spec2Model ----------------------------
(***************************************************************************)
(* A model of the STARK verifier pipeline of lambdaworks_cairo_prover: the  *)
(* Fiat-Shamir transcript, the domain, the AIR contract, the FRI commit    *)
(* and query phases and the two verifiers (src/src/verifier.rs, called the *)
(* "legacy" verifier below, and src/src/starks/verifier.rs, called the     *)
(* "starks" verifier).  Field arithmetic is done in the 17-element field   *)
(* FE17 the repository's own tests use; hashes are modelled by a small     *)
(* keyed mixing function and Merkle trees symbolically.                    *)
(***************************************************************************)
EXTENDS Integers, Sequences, FiniteSets, TLC

(***************************************************************************)
(* Field arithmetic: FieldElement<U64PrimeField<17>> (FE17).               *)
(***************************************************************************)
\* A sequence held by value: its elements are computed once
Vec(s) == s \o <<>>

\* A block's bindings are computed in program order, each one before the
\* expression that uses it
InOrder(bindings, value) == IF bindings = <<>> THEN value ELSE value

P == 17

\* TWO_ADICITY and TWO_ADIC_PRIMITVE_ROOT_OF_UNITY of the FFT field FE17.
TwoAdicity == 4
TwoAdicPrimitiveRoot == 3

FE == 0 .. (P - 1)

FAdd(a, b) == (a + b) % P
FSub(a, b) == (a + P - b) % P
FNeg(a) == (P - a) % P
FMul(a, b) == (a * b) % P

\* FieldElement::pow, seven bits of the exponent's worth at a time
SmallPow(a, e) == IF e = 0 THEN 1 ELSE (a ^ e) % P

RECURSIVE FPow(_, _)
FPow(a, e) ==
    IF e <= 7 THEN SmallPow(a, e)
    ELSE FMul(FPow(SmallPow(a, 7), e \div 7), SmallPow(a, e % 7))

\* FieldElement::inv; the library aborts on zero, callers test IsZeroDiv first.
FInv(a) == FPow(a, P - 2)
FDiv(a, b) == FMul(a, FInv(b))

Pow2(k) == 2 ^ k

\* usize::trailing_zeros for a nonzero argument.
trailing_zeros(x) == CHOOSE k \in 0 .. x : x % (2 ^ k) = 0 /\ x % (2 ^ (k + 1)) # 0

\* F::get_primitive_root_of_unity(order)
get_primitive_root_of_unity(order) ==
    FPow(TwoAdicPrimitiveRoot, Pow2(TwoAdicity - order))

\* The powers of the primitive root, the offset left out
get_powers_of_primitive_root(order, count, offset) ==
    Vec([i \in 1 .. count |-> FPow(get_primitive_root_of_unity(order), i - 1)])

\* get_powers_of_primitive_root_coset(order, count, offset)
get_powers_of_primitive_root_coset(order, count, offset) ==
    Vec([i \in 1 .. count |->
        FMul(offset, FPow(get_primitive_root_of_unity(order), i - 1))])

(***************************************************************************)
(* Sequences.                                                              *)
(***************************************************************************)
Min(a, b) == IF a < b THEN a ELSE b
Max(a, b) == IF a < b THEN b ELSE a

Range(s) == {s[i] : i \in DOMAIN s}

Take(s, k) == SubSeq(s, 1, Min(k, Len(s)))
Drop(s, k) == SubSeq(s, Min(k, Len(s)) + 1, Len(s))

\* The sum of a sequence of naturals, by halves
RECURSIVE SumSeq(_, _, _)
SumSeq(s, from, to) ==
    IF from > to THEN 0
    ELSE IF from = to THEN s[from]
    ELSE SumSeq(s, from, (from + to) \div 2) + SumSeq(s, (from + to) \div 2 + 1, to)

\* Iterator::sum and Iterator::product of field elements
FSum(s) == SumSeq(s, 1, Len(s)) % P

RECURSIVE FProd(_)
FProd(s) ==
    IF Len(s) = 0 THEN 1
    ELSE IF Len(s) = 1 THEN s[1]
    ELSE FMul(FProd(SubSeq(s, 1, Len(s) \div 2)),
              FProd(SubSeq(s, Len(s) \div 2 + 1, Len(s))))

RECURSIVE Flatten(_)
Flatten(ss) == IF ss = <<>> THEN <<>> ELSE Head(ss) \o Flatten(Tail(ss))

(***************************************************************************)
(* Polynomial: dense coefficient vector, lowest degree first, without      *)
(* trailing zeros (Polynomial::new trims them).                            *)
(***************************************************************************)
RECURSIVE PolyTrim(_)
PolyTrim(p) ==
    IF p = <<>> THEN <<>>
    ELSE IF p[Len(p)] = 0 THEN PolyTrim(SubSeq(p, 1, Len(p) - 1)) ELSE p

\* The coefficient of x^(i - 1)
PolyCoef(p, i) == IF i \in DOMAIN p THEN p[i] ELSE 0

\* Polynomial::degree: 0 for the zero polynomial
PolyDegree(p) == LET t == PolyTrim(p) IN IF t = <<>> THEN 0 ELSE Len(t) - 1

PolyAdd(p, q) ==
    PolyTrim(Vec([i \in 1 .. Max(Len(p), Len(q)) |-> FAdd(PolyCoef(p, i), PolyCoef(q, i))]))

PolySub(p, q) ==
    PolyTrim(Vec([i \in 1 .. Max(Len(p), Len(q)) |-> FSub(PolyCoef(p, i), PolyCoef(q, i))]))

PolyScale(p, c) == PolyTrim(Vec([i \in 1 .. Len(p) |-> FMul(p[i], c)]))

PolyMul(p, q) ==
    IF p = <<>> \/ q = <<>> THEN <<>>
    ELSE PolyTrim(Vec([k \in 1 .. (Len(p) + Len(q) - 1) |->
            FSum(Vec([i \in 1 .. Len(p) |-> FMul(p[i], PolyCoef(q, k - i + 1))]))]))

\* Polynomial::new_monomial(c, d)
new_monomial(c, d) == PolyTrim(Vec([i \in 1 .. (d + 1) |-> IF i = d + 1 THEN c ELSE 0]))

\* Polynomial::evaluate: sum of p[i] * x^(i - 1)
PolyEval(p, x) == FSum(Vec([i \in 1 .. Len(p) |-> FMul(p[i], FPow(x, i - 1))]))

\* Polynomial long division: the quotient and the remainder of a by b (b # 0).
RECURSIVE PolyDivRem(_, _, _)
PolyDivRem(a, b, q) ==
    LET ta == PolyTrim(a)
    IN  IF Len(ta) < Len(b) THEN [quotient |-> PolyTrim(q), remainder |-> ta]
        ELSE LET sh == Len(ta) - Len(b)
                 c == FDiv(ta[Len(ta)], b[Len(b)])
                 term == new_monomial(c, sh)
                 rest == PolySub(ta, PolyMul(term, b))
                 sum == PolyAdd(q, term)
             IN  InOrder(<<rest, sum>>, PolyDivRem(rest, b, sum))

\* impl Div for Polynomial: the quotient of the long division
PolyDiv(a, b) == PolyDivRem(a, PolyTrim(b), <<>>).quotient
PolyRem(a, b) == PolyDivRem(a, PolyTrim(b), <<>>).remainder

\* The polynomial with the given roots: prod (x - r)
RECURSIVE ZerofierOf(_)
ZerofierOf(roots) ==
    IF roots = <<>> THEN <<1>>
    ELSE PolyMul(<<FNeg(Head(roots)), 1>>, ZerofierOf(Tail(roots)))

\* The sum of a vector of polynomials, coefficient by coefficient
PolySum(ps) ==
    LET lens == {Len(ps[i]) : i \in DOMAIN ps} \cup {0}
        longest == CHOOSE m \in lens : \A l \in lens : l <= m
    IN  PolyTrim(Vec([k \in 1 .. longest |->
            FSum(Vec([i \in 1 .. Len(ps) |-> PolyCoef(ps[i], k)]))]))

\* Polynomial::interpolate(xs, ys): Lagrange interpolation, zero for no points
Interpolate(xs, ys) ==
    LET n == Len(xs)
        others(i) == Vec([k \in 1 .. (n - 1) |-> xs[IF k < i THEN k ELSE k + 1]])
        den(i) == FProd(Vec([k \in 1 .. (n - 1) |-> FSub(xs[i], others(i)[k])]))
        basis(i) == PolyScale(ZerofierOf(others(i)), FDiv(ys[i], den(i)))
    IN  PolySum(Vec([i \in 1 .. n |-> basis(i)]))

\* Polynomial::interpolate_fft / interpolate_offset_fft: the inverse transform
\* over xs = offset * w^i, all the powers of a root of unity w of order Len(xs)
interpolate_fft(xs, ys) ==
    LET n == Len(xs)
    IN  PolyTrim(Vec([k \in 1 .. n |->
            FDiv(FSum(Vec([i \in 1 .. n |-> FMul(ys[i], FPow(FInv(xs[i]), k - 1))])),
                 n % P)]))

\* p(c * x)
PolyScaleArg(p, c) == PolyTrim(Vec([i \in 1 .. Len(p) |-> FMul(p[i], FPow(c, i - 1))]))

\* Even and odd parts: p(x) = even(x^2) + x * odd(x^2)
EvenPart(p) == PolyTrim(Vec([i \in 1 .. ((Len(p) + 1) \div 2) |-> p[2 * i - 1]]))
OddPart(p) == PolyTrim(Vec([i \in 1 .. (Len(p) \div 2) |-> p[2 * i]]))

(***************************************************************************)
(* Bytes and hashing.  Sha3_256 is modelled by a keyed mixing function on   *)
(* a 15-bit state; widths are scaled down: a field element or a u64 is      *)
(* WordLen bytes big-endian, a digest DigestLen bytes.                      *)
(***************************************************************************)
HashMod == 32749
HashMul == 31
MerkleIV == 40503
WordLen == 2
DigestLen == 3

\* FieldElement::to_bytes_be / u64::to_be_bytes, big-endian, fixed width
to_bytes_be(x) == <<(x \div 256) % 256, x % 256>>

\* u64::from_be_bytes / usize::from_be_bytes of the first WordLen bytes
from_be_bytes(bytes) == bytes[1] * 256 + bytes[2]

\* HashMul^k modulo HashMod
RECURSIVE HashPow(_)
HashPow(k) ==
    IF k <= 6 THEN (HashMul ^ k) % HashMod
    ELSE (HashPow(k - 6) * ((HashMul ^ 6) % HashMod)) % HashMod

\* Hasher::update: h becomes h * HashMul + byte + 1 modulo HashMod at every
\* byte; the n steps in closed form
Absorb(h, bytes) ==
    LET n == Len(bytes)
        terms == Vec([i \in 1 .. n |-> ((bytes[i] + 1) * HashPow(n - i)) % HashMod])
    IN  (h * HashPow(n) + SumSeq(terms, 1, n)) % HashMod

\* Hasher::finalize: the digest of the absorbed state
Finalize(h) ==
    LET d == (h * 7919 + 10007) % HashMod
        e == (d * 31 + h) % 256
    IN  <<d % 256, e, d \div 256>>

\* A digest read back as one node value (the model's [u8; 32])
NodeOf(digest) == (digest[1] * 256 + digest[2]) * 256 + digest[3]
NodeBytes(node) == <<(node \div 65536) % 256, (node \div 256) % 256, node % 256>>

Sha3(bytes) == NodeOf(Finalize(Absorb(MerkleIV, bytes)))

(***************************************************************************)
(* Transcript (DefaultTranscript): append absorbs bytes, challenge returns  *)
(* the digest, resets the hasher and absorbs the digest.  log is the        *)
(* history of the operations made on the transcript.                        *)
(***************************************************************************)
NewTranscript(iv) == [iv |-> iv, h |-> iv, log |-> <<>>]

TranscriptAppend(t, what, bytes) ==
    [t EXCEPT !.h = Absorb(t.h, bytes),
              !.log = Append(t.log, <<"append", what, bytes>>)]

TranscriptChallenge(t) == Finalize(t.h)

TranscriptAfterChallenge(t, what) ==
    [t EXCEPT !.h = Absorb(t.iv, Finalize(t.h)),
              !.log = Append(t.log, <<"challenge", what>>)]

\* transcript_to_field: the first 8 bytes of a challenge as u64, reduced
transcript_to_field(t, what) ==
    [val |-> from_be_bytes(SubSeq(TranscriptChallenge(t), 1, WordLen)) % P,
     t |-> TranscriptAfterChallenge(t, what)]

\* transcript_to_usize
transcript_to_usize(t, what) ==
    [val |-> from_be_bytes(SubSeq(TranscriptChallenge(t), 1, WordLen)),
     t |-> TranscriptAfterChallenge(t, what)]

\* batch_sample_challenges(size, transcript)
RECURSIVE batch_sample_challenges(_, _, _)
batch_sample_challenges(size, t, what) ==
    IF size = 0 THEN [vals |-> <<>>, t |-> t]
    ELSE LET c == transcript_to_field(t, what)
             rest == batch_sample_challenges(size - 1, c.t, what)
         IN  [vals |-> <<c.val>> \o rest.vals, t |-> rest.t]

\* The largest number of candidates sample_z_ood is followed through.
MaxZDraws == 40

\* The sampling that turns down the points of the LDE coset only
RECURSIVE sample_z_outside_lde_coset(_, _, _, _)
sample_z_outside_lde_coset(lde_roots_of_unity_coset, trace_roots_of_unity, t, fuel) ==
    LET c == transcript_to_field(t, "z")
    IN  IF c.val \notin Range(lde_roots_of_unity_coset)
        THEN [val |-> c.val, t |-> c.t, found |-> TRUE]
        ELSE IF fuel = 0 THEN [val |-> c.val, t |-> c.t, found |-> FALSE]
        ELSE sample_z_outside_lde_coset(lde_roots_of_unity_coset,
                                        trace_roots_of_unity, c.t, fuel - 1)

\* sample_z_ood: rejection sampling outside both domains
RECURSIVE sample_z_ood_from(_, _, _, _)
sample_z_ood_from(lde_roots_of_unity_coset, trace_roots_of_unity, t, fuel) ==
    LET c == transcript_to_field(t, "z")
    IN  IF /\ c.val \notin Range(lde_roots_of_unity_coset)
           /\ c.val \notin Range(trace_roots_of_unity)
        THEN [val |-> c.val, t |-> c.t, found |-> TRUE]
        ELSE IF fuel = 0 THEN [val |-> c.val, t |-> c.t, found |-> FALSE]
        ELSE sample_z_ood_from(lde_roots_of_unity_coset, trace_roots_of_unity,
                               c.t, fuel - 1)

sample_z_ood(lde_roots_of_unity_coset, trace_roots_of_unity, t) ==
    sample_z_ood_from(lde_roots_of_unity_coset, trace_roots_of_unity, t, MaxZDraws)

(***************************************************************************)
(* Merkle trees.  A tree over 2^d leaves is the sequence of its levels,     *)
(* leaves' hashes first; a proof is the sequence of sibling nodes from the  *)
(* leaf up.                                                                 *)
(***************************************************************************)
\* BatchStarkProverBackend::hash_data: a leaf is a vector of field elements
hash_data(leaf) == Sha3(Flatten(Vec([i \in 1 .. Len(leaf) |-> to_bytes_be(leaf[i])])))

\* hash_new_parent
hash_new_parent(left, right) == Sha3(NodeBytes(left) \o NodeBytes(right))

RECURSIVE MerkleLevels(_)
MerkleLevels(nodes) ==
    IF Len(nodes) <= 1 THEN <<nodes>>
    ELSE <<nodes>> \o MerkleLevels(
            Vec([i \in 1 .. (Len(nodes) \div 2) |->
                hash_new_parent(nodes[2 * i - 1], nodes[2 * i])]))

\* MerkleTree::build over a vector of leaves
MerkleBuild(leaves) == MerkleLevels(Vec([i \in 1 .. Len(leaves) |-> hash_data(leaves[i])]))

MerkleRoot(tree) == tree[Len(tree)][1]

\* MerkleTree::get_proof_by_pos (pos counted from 0)
get_proof_by_pos(tree, pos) ==
    [merkle_path |->
        Vec([l \in 1 .. (Len(tree) - 1) |->
            LET idx == pos \div Pow2(l - 1)
            IN  tree[l][(IF idx % 2 = 0 THEN idx + 1 ELSE idx - 1) + 1]])]

\* Proof::verify(root_hash, index, value)
RECURSIVE MerkleFold(_, _, _)
MerkleFold(path, index, hashed) ==
    IF path = <<>> THEN hashed
    ELSE MerkleFold(Tail(path), index \div 2,
                    IF index % 2 = 0 THEN hash_new_parent(hashed, Head(path))
                    ELSE hash_new_parent(Head(path), hashed))

MerkleVerify(proof, root_hash, index, value) ==
    root_hash = MerkleFold(proof.merkle_path, index, hash_data(value))

(***************************************************************************)
(* The AIRs.  An AIR value is its AirContext (with the ProofOptions) and    *)
(* its name; the trait methods dispatch on the name.                       *)
(***************************************************************************)
\* The largest fri_number_of_queries and the largest transcript key tried.
MaxQueries == 2
MaxSeed == 17

ProofOptionsOf(queries) ==
    [blowup_factor |-> 2, fri_number_of_queries |-> queries,
     coset_offset |-> 3, grinding_factor |-> 1]

\* simple_fibonacci::FibonacciAIR with the context of test_prove_fib17
FibonacciAIR(queries) ==
    [name |-> "FibonacciAIR",
     trace_length |-> 4,
     trace_columns |-> 1,
     transition_degrees |-> <<1>>,
     transition_exemptions |-> <<2>>,
     transition_offsets |-> <<0, 1, 2>>,
     num_transition_constraints |-> 1,
     options |-> ProofOptionsOf(queries)]

\* fibonacci_rap::FibonacciRAP with the context of test_prove_rap_fib for a
\* Fibonacci sequence of 3 entries (4 rows)
FibonacciRAP(queries) ==
    [name |-> "FibonacciRAP",
     trace_length |-> 4,
     trace_columns |-> 3,
     transition_degrees |-> <<1, 2>>,
     transition_exemptions |-> <<3, 1>>,
     transition_offsets |-> <<0, 1, 2>>,
     num_transition_constraints |-> 2,
     options |-> ProofOptionsOf(queries)]

\* quadratic_air::QuadraticAIR with the context of test_prove_quadratic;
\* boundary_value is the public input: the value of t at the first row
QuadraticAIR(queries) ==
    [name |-> "QuadraticAIR",
     trace_length |-> 4,
     trace_columns |-> 1,
     transition_degrees |-> <<2>>,
     transition_exemptions |-> <<1>>,
     transition_offsets |-> <<0, 1>>,
     num_transition_constraints |-> 1,
     boundary_value |-> 3,
     options |-> ProofOptionsOf(queries)]

\* k copies of x
Repeat(x, k) == [i \in 1 .. k |-> x]

\* CairoAIR::new: the context of the Cairo AIR
CairoAIR_new(proof_options, full_trace_length, number_steps, has_rc_builtin) ==
    LET transition_degrees ==
            Repeat(2, 15) \o <<1>> \o Repeat(3, 15) \o Repeat(2, 4) \o Repeat(2, 4)
                \o Repeat(2, 4) \o Repeat(2, 3) \o Repeat(2, 3)
        transition_exemptions ==
            Repeat(0, 16) \o <<0>> \o <<0, 0, 0>> \o <<1, 1, 1, 1, 0, 0>>
                \o Repeat(0, 5) \o <<0, 0, 0, 1>> \o <<0, 0, 0, 1>> \o <<0, 0, 0, 1>>
                \o <<0, 0, 1>> \o <<0, 0, 0>>
    IN  [name |-> "CairoAIR",
         trace_length |-> full_trace_length,
         trace_columns |-> IF has_rc_builtin THEN 34 + 3 + 12 + 3 + 8 + 1
                           ELSE 34 + 3 + 12 + 3,
         transition_degrees |-> IF has_rc_builtin THEN transition_degrees \o <<1>>
                                ELSE transition_degrees,
         transition_exemptions |-> IF has_rc_builtin THEN transition_exemptions \o <<0>>
                                   ELSE transition_exemptions,
         transition_offsets |-> <<0, 1>>,
         num_transition_constraints |-> IF has_rc_builtin THEN 49 + 1 ELSE 49,
         number_steps |-> number_steps,
         has_rc_builtin |-> has_rc_builtin,
         options |-> proof_options]

AIRs == {FibonacciAIR(q) : q \in 1 .. MaxQueries}
            \cup {FibonacciRAP(q) : q \in 1 .. MaxQueries}
            \cup {QuadraticAIR(q) : q \in 1 .. MaxQueries}

number_auxiliary_rap_columns(air) == IF air.name = "FibonacciRAP" THEN 1 ELSE 0

\* Every AIR with the bound of the Fibonacci AIRs
composition_poly_degree_bound_of_fibonacci(air) == air.trace_length

\* composition_poly_degree_bound: 2 * trace_length for CairoAIR (and for the
\* quadratic AIR), trace_length for the Fibonacci AIRs
composition_poly_degree_bound(air) ==
    IF air.name \in {"QuadraticAIR", "CairoAIR"} THEN 2 * air.trace_length
    ELSE air.trace_length

\* build_rap_challenges: FibonacciRAP draws gamma, FibonacciAIR draws nothing
build_rap_challenges(air, t) ==
    IF air.name = "FibonacciRAP" THEN transcript_to_field(t, "rap")
    ELSE [val |-> 0, t |-> t]

\* compute_transition: frame[k + 1][j + 1] is get_row(k)[j]
compute_transition(air, frame, gamma) ==
    LET fib == FSub(FSub(frame[3][1], frame[2][1]), frame[1][1])
    IN  CASE air.name = "FibonacciRAP" ->
                <<fib,
                  FSub(FMul(frame[2][3], FAdd(frame[1][2], gamma)),
                       FMul(frame[1][3], FAdd(frame[1][1], gamma)))>>
          [] air.name = "QuadraticAIR" ->
                <<FSub(frame[2][1], FMul(frame[1][1], frame[1][1]))>>
          [] OTHER -> <<fib>>

\* The boundary constraints with the values of the tests, whatever the
\* public input
boundary_constraints_of_the_tests(air) ==
    CASE air.name = "FibonacciRAP" ->
            <<[col |-> 0, step |-> 0, value |-> 1], [col |-> 0, step |-> 1, value |-> 1],
              [col |-> 2, step |-> 0, value |-> 1]>>
      [] air.name = "QuadraticAIR" -> <<[col |-> 0, step |-> 0, value |-> 3]>>
      [] OTHER -> <<[col |-> 0, step |-> 0, value |-> 1],
                    [col |-> 0, step |-> 1, value |-> 1]>>

\* boundary_constraints: BoundaryConstraint (col, step, value)
boundary_constraints(air) ==
    LET a0 == [col |-> 0, step |-> 0, value |-> 1]
        a1 == [col |-> 0, step |-> 1, value |-> 1]
        a0_aux == [col |-> 2, step |-> 0, value |-> 1]
    IN  CASE air.name = "FibonacciRAP" -> <<a0, a1, a0_aux>>
          [] air.name = "QuadraticAIR" ->
                <<[col |-> 0, step |-> 0, value |-> air.boundary_value]>>
          [] OTHER -> <<a0, a1>>

\* BoundaryConstraints::generate_roots_of_unity, per column
boundary_roots_of_unity(constraints, primitive_root, col) ==
    LET mine == SelectSeq(constraints, LAMBDA c : c.col = col)
    IN  Vec([i \in 1 .. Len(mine) |-> FPow(primitive_root, mine[i].step)])

\* BoundaryConstraints::values, per column
boundary_values(constraints, col) ==
    LET mine == SelectSeq(constraints, LAMBDA c : c.col = col)
    IN  Vec([i \in 1 .. Len(mine) |-> mine[i].value])

\* BoundaryConstraints::compute_zerofier
compute_zerofier(constraints, primitive_root, col) ==
    ZerofierOf(boundary_roots_of_unity(constraints, primitive_root, col))

\* The exemptions taken from the first rows of the trace, not the last
transition_exemptions_first_rows(air) ==
    LET roots_of_unity ==
            get_powers_of_primitive_root_coset(
                trailing_zeros(air.trace_length), air.trace_length, 1)
        n == Len(roots_of_unity)
        taken == Take(air.transition_exemptions, air.num_transition_constraints)
    IN  Vec([c \in 1 .. Len(taken) |->
            ZerofierOf(Vec([k \in 1 .. Min(taken[c], n) |-> roots_of_unity[k]]))])

\* AIR::transition_exemptions (the default method)
transition_exemptions(air) ==
    LET roots_of_unity ==
            get_powers_of_primitive_root_coset(
                trailing_zeros(air.trace_length), air.trace_length, 1)
        n == Len(roots_of_unity)
        taken == Take(air.transition_exemptions, air.num_transition_constraints)
    IN  Vec([c \in 1 .. Len(taken) |->
            ZerofierOf(Vec([k \in 1 .. Min(taken[c], n) |-> roots_of_unity[n - k + 1]]))])

\* fibonacci_trace / fibonacci_rap_trace: the main trace, by columns
\* quadratic_trace: each entry is the square of the one before
quadratic_trace(initial_value, trace_length) ==
    LET ret[i \in 1 .. trace_length] ==
            IF i = 1 THEN initial_value ELSE FMul(ret[i - 1], ret[i - 1])
    IN  Vec([i \in 1 .. trace_length |-> ret[i]])

MainTrace(air) ==
    CASE air.name = "FibonacciRAP" -> <<<<1, 1, 2, 0>>, <<2, 1, 1, 0>>>>
      [] air.name = "QuadraticAIR" ->
            <<quadratic_trace(air.boundary_value, air.trace_length)>>
      [] OTHER -> <<<<1, 1, 2, 3>>>>

\* resize_to_next_power_of_two: every column padded with zeros
next_power_of_two(n) == CHOOSE m \in {2 ^ e : e \in 0 .. 5} : m >= n /\ (m \div 2 < n \/ m = 1)

resize_to_next_power_of_two(trace_cols) ==
    Vec([c \in 1 .. Len(trace_cols) |->
        Vec([i \in 1 .. next_power_of_two(Len(trace_cols[c])) |->
            IF i <= Len(trace_cols[c]) THEN trace_cols[c][i] ELSE 0])])

\* fibonacci_rap_trace: the Fibonacci column, the column with its first and
\* last entries swapped, a zero appended to both and the padding
fibonacci_rap_trace(initial_values, trace_length) ==
    LET fib[i \in 1 .. Max(trace_length, 2)] ==
            IF i <= 2 THEN initial_values[i] ELSE FAdd(fib[i - 1], fib[i - 2])
        fib_seq == Vec([i \in 1 .. Max(trace_length, 2) |-> fib[i]])
        last_value == fib_seq[trace_length]
        fib_permuted == [[fib_seq EXCEPT ![1] = last_value]
                            EXCEPT ![trace_length] = initial_values[1]]
    IN  resize_to_next_power_of_two(<<Append(fib_seq, 0), Append(fib_permuted, 0)>>)

\* The running product column that takes the terms of a row into the
\* entry of the same row
build_auxiliary_trace_of_own_row(air, main, gamma) ==
    IF air.name = "FibonacciRAP"
    THEN LET n == Len(main[1])
             aux[i \in 1 .. n] ==
                 IF i = 1 THEN 1
                 ELSE FMul(aux[i - 1],
                           FDiv(FAdd(main[1][i], gamma), FAdd(main[2][i], gamma)))
         IN  <<Vec([i \in 1 .. n |-> aux[i]])>>
    ELSE <<>>

\* FibonacciRAP::build_auxiliary_trace: the running product column
build_auxiliary_trace(air, main, gamma) ==
    IF air.name = "FibonacciRAP"
    THEN LET n == Len(main[1])
             aux[i \in 1 .. n] ==
                 IF i = 1 THEN 1
                 ELSE FMul(aux[i - 1],
                           FDiv(FAdd(main[1][i - 1], gamma), FAdd(main[2][i - 1], gamma)))
         IN  <<Vec([i \in 1 .. n |-> aux[i]])>>
    ELSE <<>>

\* The divisions build_auxiliary_trace makes are all by nonzero elements
AuxTraceDefined(air, main, gamma) ==
    air.name = "FibonacciRAP" =>
        \A i \in 1 .. (Len(main[2]) - 1) : FAdd(main[2][i], gamma) # 0

(***************************************************************************)
(* Domain::new                                                             *)
(***************************************************************************)
DomainOf(air) ==
    LET blowup_factor == air.options.blowup_factor
        root_order == trailing_zeros(air.trace_length)
        lde_root_order == trailing_zeros(air.trace_length * blowup_factor)
    IN  [root_order |-> root_order,
         lde_roots_of_unity_coset |->
            get_powers_of_primitive_root_coset(
                lde_root_order, air.trace_length * blowup_factor,
                air.options.coset_offset),
         lde_root_order |-> lde_root_order,
         trace_primitive_root |-> get_primitive_root_of_unity(root_order),
         trace_roots_of_unity |->
            get_powers_of_primitive_root_coset(root_order, air.trace_length, 1),
         coset_offset |-> air.options.coset_offset,
         blowup_factor |-> blowup_factor,
         interpolation_domain_size |-> air.trace_length]

(***************************************************************************)
(* Verifier, step 1: replay of the rounds and recovery of the challenges.   *)
(* version is "legacy" (src/src/verifier.rs) or "starks"                    *)
(* (src/src/starks/verifier.rs).                                            *)
(***************************************************************************)
\* Number of leading zero bits of a byte sequence
RECURSIVE LeadingZeroBits(_, _)
LeadingZeroBits(b, width) ==
    IF width = 0 THEN 0
    ELSE IF b >= Pow2(width - 1) THEN 0
    ELSE 1 + LeadingZeroBits(b, width - 1)

RECURSIVE LeadingZeros(_)
LeadingZeros(bytes) ==
    IF bytes = <<>> THEN 0
    ELSE IF Head(bytes) = 0 THEN 8 + LeadingZeros(Tail(bytes))
    ELSE LeadingZeroBits(Head(bytes), 8)

\* grinding::hash_transcript_with_int_and_get_leading_zeros
hash_transcript_with_int_and_get_leading_zeros(transcript_challenge, nonce) ==
    LeadingZeros(Finalize(Absorb(MerkleIV, transcript_challenge \o to_bytes_be(nonce))))

\* transcript.append of every element of a sequence of field elements
RECURSIVE AppendFieldElements(_, _, _)
AppendFieldElements(t, what, elements) ==
    IF elements = <<>> THEN t
    ELSE AppendFieldElements(TranscriptAppend(t, what, to_bytes_be(Head(elements))),
                             what, Tail(elements))

\* The replay that draws each zeta before it appends the root
RECURSIVE ReplayFriRoots_draw_first(_, _)
ReplayFriRoots_draw_first(t, merkle_roots) ==
    IF merkle_roots = <<>> THEN [vals |-> <<>>, t |-> t]
    ELSE LET zeta == transcript_to_field(t, "zeta")
             t1 == TranscriptAppend(zeta.t, "fri_root", NodeBytes(Head(merkle_roots)))
             rest == ReplayFriRoots_draw_first(t1, Tail(merkle_roots))
         IN  [vals |-> <<zeta.val>> \o rest.vals, t |-> rest.t]

\* The FRI commit phase as the verifier replays it: append a root, draw a zeta
RECURSIVE ReplayFriRoots(_, _)
ReplayFriRoots(t, merkle_roots) ==
    IF merkle_roots = <<>> THEN [vals |-> <<>>, t |-> t]
    ELSE LET t1 == TranscriptAppend(t, "fri_root", NodeBytes(Head(merkle_roots)))
             zeta == transcript_to_field(t1, "zeta")
             rest == ReplayFriRoots(zeta.t, Tail(merkle_roots))
         IN  [vals |-> <<zeta.val>> \o rest.vals, t |-> rest.t]

\* The iota draws: transcript_to_usize(transcript) % 2^lde_root_order
RECURSIVE SampleIotas(_, _, _)
SampleIotas(t, count, iota_max) ==
    IF count = 0 THEN [vals |-> <<>>, t |-> t]
    ELSE LET c == transcript_to_usize(t, "iota")
             rest == SampleIotas(c.t, count - 1, iota_max)
         IN  [vals |-> <<c.val % iota_max>> \o rest.vals, t |-> rest.t]

\* proof.lde_trace_merkle_roots[0] aborts on an empty vector
step_1_aborts(proof) == proof.lde_trace_merkle_roots = <<>>

step_1_replay_rounds_and_recover_challenges(version, air, proof, domain, transcript) ==
    LET total_columns == air.trace_columns
        roots == proof.lde_trace_merkle_roots
        \* Round 1
        t1 == TranscriptAppend(transcript, "main_root", NodeBytes(roots[1]))
        rap_challenges == build_rap_challenges(air, t1)
        t2 == IF Len(roots) >= 2
              THEN TranscriptAppend(rap_challenges.t, "aux_root", NodeBytes(roots[2]))
              ELSE rap_challenges.t
        \* Round 2
        boundary_coeffs_alphas == batch_sample_challenges(total_columns, t2, "coeff")
        boundary_coeffs_betas ==
            batch_sample_challenges(total_columns, boundary_coeffs_alphas.t, "coeff")
        transition_coeffs_alphas ==
            batch_sample_challenges(air.num_transition_constraints,
                                    boundary_coeffs_betas.t, "coeff")
        transition_coeffs_betas ==
            batch_sample_challenges(air.num_transition_constraints,
                                    transition_coeffs_alphas.t, "coeff")
        t3 == TranscriptAppend(transition_coeffs_betas.t, "composition_root",
                               NodeBytes(proof.composition_poly_root))
        \* Round 3
        z == sample_z_ood(domain.lde_roots_of_unity_coset,
                          domain.trace_roots_of_unity, t3)
        t4 == TranscriptAppend(z.t, "h1",
                to_bytes_be(proof.composition_poly_even_ood_evaluation))
        t5 == TranscriptAppend(t4, "h2",
                to_bytes_be(proof.composition_poly_odd_ood_evaluation))
        t6 == AppendFieldElements(t5, "ood", Flatten(proof.trace_ood_frame_evaluations))
        \* Round 4
        gamma_even == transcript_to_field(t6, "gamma_split")
        gamma_odd == transcript_to_field(gamma_even.t, "gamma_split")
        n_offsets == Len(air.transition_offsets)
        gammas == batch_sample_challenges(total_columns * n_offsets, gamma_odd.t, "gamma")
        zetas == ReplayFriRoots(gammas.t, proof.fri_layers_merkle_roots)
        t7 == TranscriptAppend(zetas.t, "last_value", to_bytes_be(proof.fri_last_value))
        \* Grinding (starks verifier only)
        transcript_challenge == TranscriptChallenge(t7)
        t8 == IF version = "starks"
              THEN TranscriptAppend(TranscriptAfterChallenge(t7, "grinding"),
                                    "nonce", to_bytes_be(proof.nonce))
              ELSE t7
        iotas == SampleIotas(t8, air.options.fri_number_of_queries,
                             Pow2(domain.lde_root_order))
    IN  InOrder(<<t1, rap_challenges, t2, boundary_coeffs_alphas, boundary_coeffs_betas,
                  transition_coeffs_alphas, transition_coeffs_betas, t3, z, t4, t5,
                  t6, gamma_even, gamma_odd, gammas, zetas, t7, t8, iotas>>,
            [challenges |->
                [z |-> z.val,
                 boundary_coeffs |->
                    Vec([j \in 1 .. total_columns |->
                        <<boundary_coeffs_alphas.vals[j], boundary_coeffs_betas.vals[j]>>]),
                 transition_coeffs |->
                    Vec([i \in 1 .. air.num_transition_constraints |->
                        <<transition_coeffs_alphas.vals[i], transition_coeffs_betas.vals[i]>>]),
                 trace_term_coeffs |->
                    Vec([j \in 1 .. total_columns |->
                        Vec([k \in 1 .. n_offsets |-> gammas.vals[(j - 1) * n_offsets + k]])]),
                 gamma_even |-> gamma_even.val,
                 gamma_odd |-> gamma_odd.val,
                 zetas |-> zetas.vals,
                 iotas |-> iotas.vals,
                 rap_challenges |-> rap_challenges.val,
                 leading_zeros_count |->
                    IF version = "starks"
                    THEN hash_transcript_with_int_and_get_leading_zeros(
                            transcript_challenge, proof.nonce)
                    ELSE 0],
             z_found |-> z.found,
             fri_start |-> gammas.t,
             fri_end |-> t7,
             transcript |-> iotas.t])

(***************************************************************************)
(* Verifier, step 2: trace <-> composition polynomial consistency at z.     *)
(***************************************************************************)
\* FieldElement::inplace_batch_inverse: one inversion of the running product
inplace_batch_inverse(numbers) ==
    IF numbers = <<>> THEN <<>>
    ELSE LET count == Len(numbers)
             prod_prefix[i \in 1 .. count] ==
                 IF i = 1 THEN numbers[1] ELSE FMul(prod_prefix[i - 1], numbers[i])
             \* bi_inv[i]: the inverse of prod_prefix[i]
             bi_inv[i \in 1 .. count] ==
                 IF i = count THEN FInv(prod_prefix[count])
                 ELSE FMul(bi_inv[i + 1], numbers[i + 1])
         IN  Vec([i \in 1 .. count |->
                IF i = 1 THEN bi_inv[1] ELSE FMul(bi_inv[i], prod_prefix[i - 1])])

\* inplace_batch_inverse inverts the product of all the numbers: it aborts
\* when one of them is zero
batch_inverse_aborts(numbers) == \E i \in DOMAIN numbers : numbers[i] = 0

\* The sum with the degree adjustments left out
constraint_composition_sum_unadjusted(evaluations, inverse_denominators, degree_adjustments, constraint_coeffs) ==
    LET m == Min(Min(Len(evaluations), Len(degree_adjustments)),
                 Min(Len(inverse_denominators), Len(constraint_coeffs)))
    IN  FSum(Vec([i \in 1 .. m |->
            FMul(FMul(evaluations[i],
                      FAdd(constraint_coeffs[i][1], constraint_coeffs[i][2])),
                 inverse_denominators[i])]))

\* ConstraintEvaluator::compute_constraint_composition_poly_evaluations_sum
compute_constraint_composition_poly_evaluations_sum(evaluations, inverse_denominators, degree_adjustments, constraint_coeffs) ==
    LET m == Min(Min(Len(evaluations), Len(degree_adjustments)),
                 Min(Len(inverse_denominators), Len(constraint_coeffs)))
    IN  FSum(Vec([i \in 1 .. m |->
            FMul(FMul(evaluations[i],
                      FAdd(FMul(constraint_coeffs[i][1], degree_adjustments[i]),
                           constraint_coeffs[i][2])),
                 inverse_denominators[i])]))

\* The OOD frame holds one row per transition offset and one entry per column
FrameWellFormed(air, frame) ==
    /\ Len(frame) >= Len(air.transition_offsets)
    /\ \A k \in DOMAIN frame : Len(frame[k]) >= air.trace_columns

\* The usize subtractions of the degree adjustments go below zero
degree_adjustment_underflows(air) ==
    \/ composition_poly_degree_bound(air) < air.trace_length
    \/ \E i \in DOMAIN air.transition_degrees :
          \/ air.transition_degrees[i] < 1
          \/ composition_poly_degree_bound(air)
                < air.trace_length * (air.transition_degrees[i] - 1)

\* The boundary quotient numerators and denominators at z, per trace column
boundary_c_i_evaluations_num(air, proof, domain, challenges) ==
    LET constraints == boundary_constraints(air)
    IN  Vec([j \in 1 .. air.trace_columns |->
            FSub(proof.trace_ood_frame_evaluations[1][j],
                 PolyEval(Interpolate(
                            boundary_roots_of_unity(constraints,
                                domain.trace_primitive_root, j - 1),
                            boundary_values(constraints, j - 1)),
                          challenges.z))])

boundary_c_i_evaluations_den(air, domain, challenges) ==
    LET constraints == boundary_constraints(air)
    IN  Vec([j \in 1 .. air.trace_columns |->
            PolyEval(compute_zerofier(constraints, domain.trace_primitive_root, j - 1),
                     challenges.z)])

\* The legacy verifier's transition denominators: ((x^n - 1) / exemption)(z)
legacy_transition_divisors(air, challenges) ==
    LET exemptions == transition_exemptions(air)
        x_n_1 == PolySub(new_monomial(1, air.trace_length), <<1>>)
    IN  Vec([i \in 1 .. Len(exemptions) |->
            PolyEval(PolyDiv(x_n_1, exemptions[i]), challenges.z)])

step_2_aborts(version, air, proof, domain, challenges) ==
    \/ ~FrameWellFormed(air, proof.trace_ood_frame_evaluations)
    \/ degree_adjustment_underflows(air)
    \/ batch_inverse_aborts(boundary_c_i_evaluations_den(air, domain, challenges))
    \/ IF version = "legacy"
       THEN batch_inverse_aborts(legacy_transition_divisors(air, challenges))
       ELSE FSub(FPow(challenges.z, air.trace_length), 1) = 0

\* The value step 2 recomputes for H(z) from the OOD frame
composition_poly_ood_evaluation(version, air, proof, domain, challenges) ==
    LET z == challenges.z
        trace_length == air.trace_length
        bound == composition_poly_degree_bound(air)
        num == boundary_c_i_evaluations_num(air, proof, domain, challenges)
        den == boundary_c_i_evaluations_den(air, domain, challenges)
        den_inv == IF version = "legacy"
                   THEN Vec([j \in DOMAIN den |-> FInv(den[j])])
                   ELSE inplace_batch_inverse(den)
        boundary_degree_z == FPow(z, bound - trace_length)
        m == Min(Len(num), Len(challenges.boundary_coeffs))
        boundary_quotient_ood_evaluation ==
            FSum(Vec([j \in 1 .. m |->
                FMul(FMul(num[j], den_inv[j]),
                     FAdd(FMul(challenges.boundary_coeffs[j][1], boundary_degree_z),
                          challenges.boundary_coeffs[j][2]))]))
        transition_ood_frame_evaluations ==
            compute_transition(air, proof.trace_ood_frame_evaluations,
                               challenges.rap_challenges)
        exemptions == transition_exemptions(air)
        divisor_x_n == FInv(FSub(FPow(z, trace_length), 1))
        denominators ==
            IF version = "legacy"
            THEN inplace_batch_inverse(legacy_transition_divisors(air, challenges))
            ELSE Vec([i \in 1 .. Len(exemptions) |->
                    FMul(PolyEval(exemptions[i], z), divisor_x_n)])
        degree_adjustments ==
            Vec([i \in 1 .. Len(air.transition_degrees) |->
                FPow(z, bound - trace_length * (air.transition_degrees[i] - 1))])
        transition_c_i_evaluations_sum ==
            compute_constraint_composition_poly_evaluations_sum(
                transition_ood_frame_evaluations, denominators,
                degree_adjustments, challenges.transition_coeffs)
    IN  FAdd(boundary_quotient_ood_evaluation, transition_c_i_evaluations_sum)

\* H1(z^2) + z * H2(z^2) as the proof claims it
composition_poly_claimed_ood_evaluation(proof, challenges) ==
    FAdd(proof.composition_poly_even_ood_evaluation,
         FMul(challenges.z, proof.composition_poly_odd_ood_evaluation))

\* Step 2 with the comparison left out
step_2_without_comparison(version, air, proof, domain, challenges) ==
    composition_poly_claimed_ood_evaluation(proof, challenges) \in FE

step_2_verify_claimed_composition_polynomial(version, air, proof, domain, challenges) ==
    composition_poly_claimed_ood_evaluation(proof, challenges)
        = composition_poly_ood_evaluation(version, air, proof, domain, challenges)

(***************************************************************************)
(* Verifier, step 3: FRI.  The per-query check returns "true", "false" or   *)
(* "abort" (an out-of-range index, a failed unwrap, an arithmetic overflow  *)
(* caught by the build's overflow checks).                                  *)
(***************************************************************************)
\* Leaves of the FRI trees are single field elements
FriLeaf(evaluation) == <<evaluation>>

\* (iota + domain_length / 2) % domain_length, domain_length = 1 << (order - k).
\* Without overflow checks order - k wraps for k > order and the shift amount
\* is masked: the index keeps the low bits of iota.
\* The index of the query itself in layer k
layer_evaluation_index(lde_root_order, k, iota) ==
    IF k > lde_root_order THEN iota ELSE iota % Pow2(lde_root_order - k)

layer_evaluation_index_sym(lde_root_order, k, iota) ==
    IF k > lde_root_order THEN iota
    ELSE LET domain_length == Pow2(lde_root_order - k)
         IN  (iota + domain_length \div 2) % domain_length

\* The fold with the factor 2 of the second denominator left out
legacy_fold_without_two(v, evaluation_sym, beta, evaluation_point) ==
    FAdd(FDiv(FAdd(v, evaluation_sym), 2),
         FDiv(FMul(beta, FSub(v, evaluation_sym)), evaluation_point))

\* v = (v + v_sym) / 2 + beta * (v - v_sym) / (2 * evaluation_point)
legacy_fold(v, evaluation_sym, beta, evaluation_point) ==
    FAdd(FDiv(FAdd(v, evaluation_sym), 2),
         FDiv(FMul(beta, FSub(v, evaluation_sym)), FMul(2, evaluation_point)))

RECURSIVE legacy_query_loop(_, _, _, _, _, _, _, _, _, _)
legacy_query_loop(fri_layers_merkle_roots, fri_last_value, zetas, iota, fri_decommitment, lde_root_order, overflow_checks, k, v, evaluation_point) ==
    LET m == Min(Len(fri_layers_merkle_roots),
                 Min(Len(fri_decommitment.layers_auth_paths_sym),
                     Len(fri_decommitment.layers_evaluations_sym)))
    IN  IF k >= m THEN (IF v = fri_last_value THEN "true" ELSE "false")
        ELSE IF k > lde_root_order /\ overflow_checks THEN "abort"
        ELSE IF ~MerkleVerify(fri_decommitment.layers_auth_paths_sym[k + 1],
                              fri_layers_merkle_roots[k + 1],
                              layer_evaluation_index_sym(lde_root_order, k, iota),
                              FriLeaf(fri_decommitment.layers_evaluations_sym[k + 1]))
        THEN "false"
        ELSE legacy_query_loop(fri_layers_merkle_roots, fri_last_value, zetas, iota,
                fri_decommitment, lde_root_order, overflow_checks, k + 1,
                legacy_fold(v, fri_decommitment.layers_evaluations_sym[k + 1],
                            zetas[k + 1], evaluation_point),
                FPow(evaluation_point, 2))

\* src/src/verifier.rs verify_query_and_sym_openings
legacy_verify_query_and_sym_openings(air, fri_layers_merkle_roots, fri_last_value, zetas, iota, fri_decommitment, domain, overflow_checks) ==
    IF fri_layers_merkle_roots = <<>> THEN "abort"
    ELSE IF ~MerkleVerify(fri_decommitment.first_layer_auth_path,
                          fri_layers_merkle_roots[1], iota,
                          FriLeaf(fri_decommitment.first_layer_evaluation))
    THEN "false"
    ELSE legacy_query_loop(fri_layers_merkle_roots, fri_last_value, zetas, iota,
            fri_decommitment, domain.lde_root_order, overflow_checks, 0,
            fri_decommitment.first_layer_evaluation,
            FMul(air.options.coset_offset,
                 FPow(get_primitive_root_of_unity(domain.lde_root_order), iota)))

\* The fold with the second term not halved
starks_fold_second_term_whole(v, evaluation_sym, beta, evaluation_point_inv) ==
    LET two_inv == FInv(2)
    IN  FAdd(FMul(FAdd(v, evaluation_sym), two_inv),
             FMul(FMul(beta, FSub(v, evaluation_sym)), evaluation_point_inv))

\* v = (v + v_sym) * two_inv + beta * (v - v_sym) * two_inv * evaluation_point_inv
starks_fold(v, evaluation_sym, beta, evaluation_point_inv) ==
    LET two_inv == FInv(2)
    IN  FAdd(FMul(FAdd(v, evaluation_sym), two_inv),
             FMul(FMul(FMul(beta, FSub(v, evaluation_sym)), two_inv),
                  evaluation_point_inv))

RECURSIVE starks_query_loop(_, _, _, _, _, _, _, _, _)
starks_query_loop(fri_layers_merkle_roots, zetas, iota, fri_decommitment, lde_root_order, overflow_checks, evaluation_point_vec, k, v) ==
    LET m == Min(Min(Len(fri_layers_merkle_roots), Len(evaluation_point_vec)),
                 Min(Min(Len(fri_decommitment.layers_auth_paths),
                         Len(fri_decommitment.layers_evaluations)),
                     Min(Len(fri_decommitment.layers_auth_paths_sym),
                         Len(fri_decommitment.layers_evaluations_sym))))
    IN  IF k >= m THEN "true"
        ELSE IF k > lde_root_order /\ overflow_checks THEN "abort"
        ELSE IF ~MerkleVerify(fri_decommitment.layers_auth_paths_sym[k + 1],
                              fri_layers_merkle_roots[k + 1],
                              layer_evaluation_index_sym(lde_root_order, k, iota),
                              FriLeaf(fri_decommitment.layers_evaluations_sym[k + 1]))
        THEN "false"
        ELSE IF ~MerkleVerify(fri_decommitment.layers_auth_paths[k + 1],
                              fri_layers_merkle_roots[k + 1], iota,
                              FriLeaf(fri_decommitment.layers_evaluations[k + 1]))
        THEN "false"
        ELSE LET next == starks_fold(v, fri_decommitment.layers_evaluations_sym[k + 1],
                                     zetas[k + 1], evaluation_point_vec[k + 1])
             IN  IF /\ k < Len(fri_decommitment.layers_evaluations) - 1
                    /\ next # fri_decommitment.layers_evaluations[k + 2]
                 THEN "false"
                 ELSE starks_query_loop(fri_layers_merkle_roots, zetas, iota,
                        fri_decommitment, lde_root_order, overflow_checks,
                        evaluation_point_vec, k + 1, next)

\* src/src/starks/verifier.rs verify_query_and_sym_openings
starks_verify_query_and_sym_openings(fri_layers_merkle_roots, zetas, iota, fri_decommitment, domain, overflow_checks) ==
    LET evaluation_point == domain.lde_roots_of_unity_coset[iota + 1]
        squares[k \in 1 .. Len(fri_layers_merkle_roots)] ==
            IF k = 1 THEN evaluation_point ELSE FPow(squares[k - 1], 2)
        evaluation_point_vec ==
            inplace_batch_inverse(Vec([k \in 1 .. Len(fri_layers_merkle_roots) |-> squares[k]]))
    IN  IF fri_decommitment.layers_evaluations = <<>> THEN "abort"
        ELSE starks_query_loop(fri_layers_merkle_roots, zetas, iota, fri_decommitment,
                domain.lde_root_order, overflow_checks, evaluation_point_vec, 0,
                fri_decommitment.layers_evaluations[1])

verify_query_and_sym_openings(version, air, proof, challenges, iota, fri_decommitment, domain, overflow_checks) ==
    IF version = "legacy"
    THEN legacy_verify_query_and_sym_openings(air, proof.fri_layers_merkle_roots,
            proof.fri_last_value, challenges.zetas, iota, fri_decommitment, domain,
            overflow_checks)
    ELSE starks_verify_query_and_sym_openings(proof.fri_layers_merkle_roots,
            challenges.zetas, iota, fri_decommitment, domain, overflow_checks)

\* The outcomes of the queries step 3 goes through: the pairs of the zip of
\* proof.query_list with challenges.iotas, all of them (no short circuit)
step_3_outcomes(version, air, proof, domain, challenges, overflow_checks) ==
    Vec([s \in 1 .. Min(Len(proof.query_list), Len(challenges.iotas)) |->
        verify_query_and_sym_openings(version, air, proof, challenges,
            challenges.iotas[s], proof.query_list[s], domain, overflow_checks)])

step_3_aborts(outcomes) == \E s \in DOMAIN outcomes : outcomes[s] = "abort"

\* The queries the loop of step 3 reaches: all of the pairs, unless
\* verify_query_and_sym_openings panics, which ends the loop at that pair
step_3_examined(outcomes) ==
    {s \in DOMAIN outcomes : \A r \in 1 .. (s - 1) : outcomes[r] # "abort"}

\* step_3_verify_fri: the fold of the outcomes with &=
step_3_verify_fri(outcomes) == \A s \in DOMAIN outcomes : outcomes[s] = "true"

(***************************************************************************)
(* Verifier, step 4: the openings of the trace and of the composition       *)
(* polynomial, and the value of the Deep composition polynomial.            *)
(***************************************************************************)
num_rows(frame) == Len(frame)
num_columns(frame) == IF frame = <<>> THEN 0 ELSE Len(frame[1])

\* upsilon_0 - z * g^row_idx, one per row of the OOD frame
deep_divisors(proof, domain, challenges, iota) ==
    LET primitive_root == get_primitive_root_of_unity(domain.root_order)
        upsilon_0 == domain.lde_roots_of_unity_coset[iota + 1]
    IN  Vec([r \in 1 .. num_rows(proof.trace_ood_frame_evaluations) |->
            FSub(upsilon_0, FMul(challenges.z, FPow(primitive_root, r - 1)))])

\* reconstruct_deep_composition_poly_evaluation over one opening; the legacy
\* verifier divides term by term, the other one multiplies by batch inverses
reconstruct_deep_composition_poly_evaluation(version, proof, domain, challenges, iota, opening) ==
    LET frame == proof.trace_ood_frame_evaluations
        upsilon_0 == domain.lde_roots_of_unity_coset[iota + 1]
        z_squared == FMul(challenges.z, challenges.z)
        divisors == deep_divisors(proof, domain, challenges, iota)
        divisors_inv == IF version = "legacy"
                        THEN Vec([r \in DOMAIN divisors |-> FInv(divisors[r])])
                        ELSE inplace_batch_inverse(divisors)
        denom_inv == FInv(FSub(upsilon_0, z_squared))
        cols == Min(num_columns(frame), Len(challenges.trace_term_coeffs))
        trace_terms ==
            FSum(Vec([c \in 1 .. cols |->
                FSum(Vec([r \in 1 .. Min(num_rows(frame),
                                     Len(challenges.trace_term_coeffs[c])) |->
                    FMul(FMul(FSub(opening.lde_trace_evaluations[c], frame[r][c]),
                              divisors_inv[r]),
                         challenges.trace_term_coeffs[c][r])]))]))
        h_1_term == FMul(FSub(opening.lde_composition_poly_even_evaluation,
                              proof.composition_poly_even_ood_evaluation), denom_inv)
        h_2_term == FMul(FSub(opening.lde_composition_poly_odd_evaluation,
                              proof.composition_poly_odd_ood_evaluation), denom_inv)
    IN  FAdd(trace_terms,
             FAdd(FMul(h_1_term, challenges.gamma_even),
                  FMul(h_2_term, challenges.gamma_odd)))

\* The index and division sites of the reconstruction
reconstruct_deep_aborts(version, proof, domain, challenges, iota, opening) ==
    LET frame == proof.trace_ood_frame_evaluations
        upsilon_0 == domain.lde_roots_of_unity_coset[iota + 1]
        divisors == deep_divisors(proof, domain, challenges, iota)
        cols == Min(num_columns(frame), Len(challenges.trace_term_coeffs))
        rows(c) == Min(num_rows(frame), Len(challenges.trace_term_coeffs[c]))
    IN  \/ \E c \in 1 .. cols :
              /\ rows(c) > 0
              /\ \/ c > Len(opening.lde_trace_evaluations)
                 \/ \E r \in 1 .. rows(c) : Len(frame[r]) < c
        \/ IF version = "legacy"
           THEN \E c \in 1 .. cols : \E r \in 1 .. rows(c) : divisors[r] = 0
           ELSE batch_inverse_aborts(divisors)
        \/ FSub(upsilon_0, FMul(challenges.z, challenges.z)) = 0

\* The Merkle openings of one DeepPolynomialOpenings at the index iota: the
\* composition polynomial pair, then the zip of the trace roots with the
\* proofs and with the two slices of the trace evaluations
deep_opening_merkle_checks(air, proof, iota, opening) ==
    LET num_main_columns == air.trace_columns - number_auxiliary_rap_columns(air)
        lde_trace_evaluations ==
            <<Take(opening.lde_trace_evaluations, num_main_columns),
              Drop(opening.lde_trace_evaluations, num_main_columns)>>
        m == Min(Min(Len(proof.lde_trace_merkle_roots),
                     Len(opening.lde_trace_merkle_proofs)), 2)
    IN  /\ MerkleVerify(opening.lde_composition_poly_proof,
                        proof.composition_poly_root, iota,
                        <<opening.lde_composition_poly_even_evaluation,
                          opening.lde_composition_poly_odd_evaluation>>)
        /\ \A i \in 1 .. m :
              MerkleVerify(opening.lde_trace_merkle_proofs[i],
                           proof.lde_trace_merkle_roots[i], iota,
                           lde_trace_evaluations[i])

\* The slices [..num_main_columns] and [num_main_columns..] are out of range
deep_opening_slice_aborts(air, opening) ==
    air.trace_columns - number_auxiliary_rap_columns(air)
        > Len(opening.lde_trace_evaluations)

\* The openings step 4 goes through: the legacy verifier has one opening in
\* the proof and checks it against iotas[0] and query_list[0]; the other one
\* zips iotas with proof.deep_poly_openings.  Queries are counted from 1.
step_4_checked(version, proof, challenges) ==
    IF version = "legacy" THEN {1}
    ELSE 1 .. Min(Len(challenges.iotas), Len(proof.deep_poly_openings))

deep_poly_opening_of(version, proof, i) ==
    IF version = "legacy" THEN proof.deep_poly_openings
    ELSE proof.deep_poly_openings[i]

\* The first layer evaluation the Deep value is compared with
deep_poly_claimed_evaluation(version, proof, i) ==
    IF version = "legacy" THEN proof.query_list[i].first_layer_evaluation
    ELSE proof.query_list[i].layers_evaluations[1]

step_4_aborts(version, air, proof, domain, challenges) ==
    \/ version = "legacy" /\ challenges.iotas = <<>>
    \/ \E i \in step_4_checked(version, proof, challenges) :
          LET opening == deep_poly_opening_of(version, proof, i)
          IN  \/ deep_opening_slice_aborts(air, opening)
              \/ reconstruct_deep_aborts(version, proof, domain, challenges,
                                         challenges.iotas[i], opening)
              \/ i > Len(proof.query_list)
              \/ version # "legacy" /\ proof.query_list[i].layers_evaluations = <<>>

step_4_verify_deep_composition_polynomial(version, air, proof, domain, challenges) ==
    \A i \in step_4_checked(version, proof, challenges) :
        LET opening == deep_poly_opening_of(version, proof, i)
            iota == challenges.iotas[i]
        IN  /\ deep_opening_merkle_checks(air, proof, iota, opening)
            /\ deep_poly_claimed_evaluation(version, proof, i)
                 = reconstruct_deep_composition_poly_evaluation(
                       version, proof, domain, challenges, iota, opening)

(***************************************************************************)
(* FRI, prover side.                                                        *)
(***************************************************************************)
\* fold_polynomial: p_even + zeta * p_odd
fold_polynomial(poly, zeta) ==
    PolyAdd(EvenPart(poly), PolyScale(OddPart(poly), zeta))

\* FriLayer::new: the evaluations of poly over the coset of domain_size
\* points and the Merkle tree over them
FriLayer_new(poly, coset_offset, domain_size) ==
    LET evaluation ==
            Vec([i \in 1 .. domain_size |->
                PolyEval(poly,
                    FMul(coset_offset,
                         FPow(get_primitive_root_of_unity(trailing_zeros(domain_size)),
                              i - 1)))])
    IN  [poly |-> poly,
         evaluation |-> evaluation,
         merkle_tree |-> MerkleBuild(Vec([i \in 1 .. domain_size |-> FriLeaf(evaluation[i])])),
         coset_offset |-> coset_offset,
         domain_size |-> domain_size]

\* The loop with every layer built over the first layer's coset offset
RECURSIVE fri_commit_loop_same_offset(_, _, _, _, _, _)
fri_commit_loop_same_offset(remaining, current_layer, fri_layer_list, t, coset_offset, domain_size) ==
    IF remaining <= 0
    THEN [current_layer |-> current_layer, fri_layer_list |-> fri_layer_list,
          zetas |-> <<>>, t |-> t]
    ELSE LET zeta == transcript_to_field(t, "zeta")
             next_size == domain_size \div 2
             next_poly == fold_polynomial(current_layer.poly, zeta.val)
             next_layer == FriLayer_new(next_poly, coset_offset, next_size)
             t1 == TranscriptAppend(zeta.t, "fri_root",
                                    NodeBytes(MerkleRoot(next_layer.merkle_tree)))
             rest == fri_commit_loop_same_offset(remaining - 1, next_layer,
                                     Append(fri_layer_list, next_layer), t1,
                                     coset_offset, next_size)
         IN  [rest EXCEPT !.zetas = <<zeta.val>> \o rest.zetas]

\* The body of the loop `for _ in 1..number_layers` of fri_commit_phase
RECURSIVE fri_commit_loop(_, _, _, _, _, _)
fri_commit_loop(remaining, current_layer, fri_layer_list, t, coset_offset, domain_size) ==
    IF remaining <= 0
    THEN [current_layer |-> current_layer, fri_layer_list |-> fri_layer_list,
          zetas |-> <<>>, t |-> t]
    ELSE LET zeta == transcript_to_field(t, "zeta")
             next_offset == FMul(coset_offset, coset_offset)
             next_size == domain_size \div 2
             next_poly == fold_polynomial(current_layer.poly, zeta.val)
             next_layer == FriLayer_new(next_poly, next_offset, next_size)
             t1 == TranscriptAppend(zeta.t, "fri_root",
                                    NodeBytes(MerkleRoot(next_layer.merkle_tree)))
             rest == fri_commit_loop(remaining - 1, next_layer,
                                     Append(fri_layer_list, next_layer), t1,
                                     next_offset, next_size)
         IN  [rest EXCEPT !.zetas = <<zeta.val>> \o rest.zetas]

\* The end of fri_commit_phase with the transcript left where it was before
\* the last challenge
fri_commit_last_without_draw(loop) ==
    LET zeta == transcript_to_field(loop.t, "zeta")
        last_poly == fold_polynomial(loop.current_layer.poly, zeta.val)
    IN  [last_value |-> PolyCoef(last_poly, 1),
         fri_layer_list |-> loop.fri_layer_list,
         zetas |-> loop.zetas \o <<zeta.val>>,
         last_poly |-> last_poly,
         before_last_value |-> loop.t,
         t |-> TranscriptAppend(loop.t, "last_value",
                                to_bytes_be(PolyCoef(last_poly, 1)))]

\* The end of fri_commit_phase with the last value taken from the last
\* committed layer's polynomial, not from its fold
fri_commit_last_of_layer(loop) ==
    LET zeta == transcript_to_field(loop.t, "zeta")
        last_poly == fold_polynomial(loop.current_layer.poly, zeta.val)
    IN  [last_value |-> PolyCoef(loop.current_layer.poly, 1),
         fri_layer_list |-> loop.fri_layer_list,
         zetas |-> loop.zetas \o <<zeta.val>>,
         last_poly |-> last_poly,
         before_last_value |-> zeta.t,
         t |-> TranscriptAppend(zeta.t, "last_value",
                                to_bytes_be(PolyCoef(loop.current_layer.poly, 1)))]

\* fri_commit_phase after its loop: the last challenge and the last value
fri_commit_last(loop) ==
    LET zeta == transcript_to_field(loop.t, "zeta")
        last_poly == fold_polynomial(loop.current_layer.poly, zeta.val)
    IN  [last_value |-> PolyCoef(last_poly, 1),
         fri_layer_list |-> loop.fri_layer_list,
         zetas |-> loop.zetas \o <<zeta.val>>,
         last_poly |-> last_poly,
         before_last_value |-> zeta.t,
         t |-> TranscriptAppend(zeta.t, "last_value",
                                to_bytes_be(PolyCoef(last_poly, 1)))]

\* The loop of fri_commit_phase from its first layer on
fri_commit_from(number_layers, first_layer, transcript, coset_offset, domain_size) ==
    fri_commit_loop(number_layers - 1, first_layer, <<first_layer>>,
                    TranscriptAppend(transcript, "fri_root",
                                     NodeBytes(MerkleRoot(first_layer.merkle_tree))),
                    coset_offset, domain_size)

\* fri_commit_phase: (last_value, fri_layer_list) and the transcript it leaves;
\* zetas are the challenges it drew
fri_commit_phase(number_layers, p_0, transcript, coset_offset, domain_size) ==
    fri_commit_last(fri_commit_from(number_layers,
                                    FriLayer_new(p_0, coset_offset, domain_size),
                                    transcript, coset_offset, domain_size))

\* The opening of one layer at a position
layer_opening(layer, index) ==
    [evaluation |-> layer.evaluation[index + 1],
     auth_path |-> get_proof_by_pos(layer.merkle_tree, index)]

\* fri_query_phase: the index of the symmetric element in a layer
index_sym(iota_s, layer) == (iota_s + layer.domain_size \div 2) % layer.domain_size

\* The FriDecommitment that opens every layer at the index itself
legacy_fri_decommitment_own_index(fri_layers, iota_s) ==
    LET own(k) == layer_opening(fri_layers[k], iota_s % fri_layers[k].domain_size)
        first == layer_opening(fri_layers[1], iota_s)
    IN  [layers_auth_paths_sym |-> Vec([k \in 1 .. Len(fri_layers) |-> own(k).auth_path]),
         layers_evaluations_sym |-> Vec([k \in 1 .. Len(fri_layers) |-> own(k).evaluation]),
         first_layer_evaluation |-> first.evaluation,
         first_layer_auth_path |-> first.auth_path]

\* The FriDecommitment of fri_query_phase for the index iota_s
legacy_fri_decommitment(fri_layers, iota_s) ==
    LET sym(k) == layer_opening(fri_layers[k], index_sym(iota_s, fri_layers[k]))
        first == layer_opening(fri_layers[1], iota_s)
    IN  [layers_auth_paths_sym |-> Vec([k \in 1 .. Len(fri_layers) |-> sym(k).auth_path]),
         layers_evaluations_sym |-> Vec([k \in 1 .. Len(fri_layers) |-> sym(k).evaluation]),
         first_layer_evaluation |-> first.evaluation,
         first_layer_auth_path |-> first.auth_path]

\* The decommitment with both openings of every layer
starks_fri_decommitment(fri_layers, iota_s) ==
    LET sym(k) == layer_opening(fri_layers[k], index_sym(iota_s, fri_layers[k]))
        own(k) == layer_opening(fri_layers[k], iota_s % fri_layers[k].domain_size)
    IN  [layers_auth_paths_sym |-> Vec([k \in 1 .. Len(fri_layers) |-> sym(k).auth_path]),
         layers_evaluations_sym |-> Vec([k \in 1 .. Len(fri_layers) |-> sym(k).evaluation]),
         layers_auth_paths |-> Vec([k \in 1 .. Len(fri_layers) |-> own(k).auth_path]),
         layers_evaluations |-> Vec([k \in 1 .. Len(fri_layers) |-> own(k).evaluation])]

\* fri_query_phase: the decommitments, the iotas drawn, the transcript left
fri_query_phase(version, air, domain_size, fri_layers, transcript) ==
    IF fri_layers = <<>> THEN [query_list |-> <<>>, iotas |-> <<>>, t |-> transcript]
    ELSE LET iotas == SampleIotas(transcript, air.options.fri_number_of_queries,
                                  domain_size)
         IN  [query_list |->
                Vec([s \in 1 .. Len(iotas.vals) |->
                    IF version = "legacy"
                    THEN legacy_fri_decommitment(fri_layers, iotas.vals[s])
                    ELSE starks_fri_decommitment(fri_layers, iotas.vals[s])]),
              iotas |-> iotas.vals,
              t |-> iotas.t]

(***************************************************************************)
(* The prover (rounds 1 to 4 of the pipeline).                              *)
(***************************************************************************)
\* The trace polynomials: each column interpolated at the trace roots of unity
trace_polys(domain, columns) ==
    Vec([j \in 1 .. Len(columns) |-> interpolate_fft(domain.trace_roots_of_unity, columns[j])])

\* The evaluations of a polynomial over the LDE coset
lde_evaluations(domain, poly) ==
    Vec([i \in 1 .. Len(domain.lde_roots_of_unity_coset) |->
        PolyEval(poly, domain.lde_roots_of_unity_coset[i])])

\* The row-batched commitment: leaf i holds every polynomial at LDE point i
batch_commit(domain, polys) ==
    MerkleBuild(Vec([i \in 1 .. Len(domain.lde_roots_of_unity_coset) |->
                    Vec([j \in 1 .. Len(polys) |->
                        PolyEval(polys[j], domain.lde_roots_of_unity_coset[i])])]))

\* The frame of the trace polynomials at x: row k holds t_j(x * g^offset_k)
frame_at(air, domain, polys, x) ==
    Vec([k \in 1 .. Len(air.transition_offsets) |->
        Vec([j \in 1 .. Len(polys) |->
            PolyEval(polys[j],
                     FMul(x, FPow(domain.trace_primitive_root,
                                  air.transition_offsets[k])))])])

\* The composition polynomial's value at x from the frame at x:
\*   sum_j ((t_j(x) - v_j(x)) / Z_j(x)) * (alpha_j x^(D-n) + beta_j)
\* + sum_i C_i(frame) * (alpha_i x^(D - n (deg_i - 1)) + beta_i) * E_i(x) / (x^n - 1)
composition_formula(air, domain, frame, boundary_coeffs, transition_coeffs, rap_challenges, x) ==
    LET n == air.trace_length
        D == composition_poly_degree_bound(air)
        constraints == boundary_constraints(air)
        g == domain.trace_primitive_root
        v(j) == Interpolate(boundary_roots_of_unity(constraints, g, j - 1),
                            boundary_values(constraints, j - 1))
        Z(j) == compute_zerofier(constraints, g, j - 1)
        C == compute_transition(air, frame, rap_challenges)
        E == transition_exemptions(air)
        boundary ==
            FSum(Vec([j \in 1 .. air.trace_columns |->
                FMul(FDiv(FSub(frame[1][j], PolyEval(v(j), x)), PolyEval(Z(j), x)),
                     FAdd(FMul(boundary_coeffs[j][1], FPow(x, D - n)),
                          boundary_coeffs[j][2]))]))
        transition ==
            FSum(Vec([i \in 1 .. air.num_transition_constraints |->
                FMul(FMul(C[i],
                          FAdd(FMul(transition_coeffs[i][1],
                                    FPow(x, D - n * (air.transition_degrees[i] - 1))),
                               transition_coeffs[i][2])),
                     FDiv(PolyEval(E[i], x), FSub(FPow(x, n), 1)))]))
    IN  FAdd(boundary, transition)

\* Round 2: H from its values over the LDE coset
composition_poly(air, domain, polys, boundary_coeffs, transition_coeffs, rap_challenges) ==
    interpolate_fft(domain.lde_roots_of_unity_coset,
        Vec([i \in 1 .. Len(domain.lde_roots_of_unity_coset) |->
            composition_formula(air, domain,
                frame_at(air, domain, polys, domain.lde_roots_of_unity_coset[i]),
                boundary_coeffs, transition_coeffs, rap_challenges,
                domain.lde_roots_of_unity_coset[i])]))

\* (p(x) - p(point)) / (x - point): the coefficient of x^(k - 1) is
\* sum over i > k of poly[i] * point^(i - k - 1)
deep_quotient(poly, point) ==
    PolyTrim(Vec([k \in 1 .. (Len(poly) - 1) |->
        FSum(Vec([i \in 1 .. (Len(poly) - k) |->
            FMul(poly[k + i], FPow(point, i - 1))]))]))

\* Round 4: the Deep composition polynomial
compute_deep_composition_poly(air, domain, polys, H1, H2, z, gamma_even, gamma_odd, trace_term_coeffs) ==
    LET z_squared == FMul(z, z)
        n_offsets == Len(air.transition_offsets)
        trace_terms ==
            Vec([m \in 1 .. (Len(polys) * n_offsets) |->
                LET j == ((m - 1) \div n_offsets) + 1
                    k == ((m - 1) % n_offsets) + 1
                IN  PolyScale(
                        deep_quotient(polys[j],
                            FMul(z, FPow(domain.trace_primitive_root,
                                         air.transition_offsets[k]))),
                        trace_term_coeffs[j][k])])
        h_terms == <<PolyScale(deep_quotient(H1, z_squared), gamma_even),
                     PolyScale(deep_quotient(H2, z_squared), gamma_odd)>>
    IN  InOrder(<<trace_terms, h_terms>>, PolySum(trace_terms \o h_terms))

\* The largest nonce the grinding search tries.
MaxNonce == 24

\* Grinding: the smallest nonce whose digest has grinding_factor leading zero
\* bits, MaxNonce + 1 when the search finds none
generate_nonce_with_grinding(transcript_challenge, grinding_factor) ==
    LET good == {n \in 0 .. MaxNonce :
                    hash_transcript_with_int_and_get_leading_zeros(
                        transcript_challenge, n) >= grinding_factor}
    IN  IF good = {} THEN MaxNonce + 1
        ELSE CHOOSE n \in good : \A m \in good : n <= m

\* The DeepPolynomialOpenings at the index iota
open_deep_composition_poly(domain, trace_trees, composition_tree, polys, H1, H2, iota) ==
    LET upsilon == domain.lde_roots_of_unity_coset[iota + 1]
    IN  [lde_composition_poly_proof |-> get_proof_by_pos(composition_tree, iota),
         lde_composition_poly_even_evaluation |-> PolyEval(H1, upsilon),
         lde_composition_poly_odd_evaluation |-> PolyEval(H2, upsilon),
         lde_trace_merkle_proofs |->
            Vec([i \in 1 .. Len(trace_trees) |-> get_proof_by_pos(trace_trees[i], iota)]),
         lde_trace_evaluations |->
            Vec([j \in 1 .. Len(polys) |-> PolyEval(polys[j], upsilon)])]

\* The provers: the honest one, and the ones that depart from it in one
\* place while keeping their transcript in step with what they send.
\* The provers of a Fibonacci RAP trace whose permuted column has one entry
\* changed: the row (counted from 1) of the entry that gets 1 added
BrokenPermutations ==
    [broken_permutation_1 |-> 1, broken_permutation_2 |-> 2, broken_permutation_3 |-> 3]

Strategies ==
    {"honest", "fewer_layers", "more_layers", "overlong_fri", "bad_last_value",
     "flip_aux_root", "shifted_deep"} \cup DOMAIN BrokenPermutations

\* The main trace the prover starts from
ProverTrace(air, strategy) ==
    IF strategy \in DOMAIN BrokenPermutations
    THEN [MainTrace(air) EXCEPT ![2][BrokenPermutations[strategy]] = FAdd(@, 1)]
    ELSE MainTrace(air)

\* The number of layers asked of fri_commit_phase
number_layers_of(strategy, domain) ==
    CASE strategy = "fewer_layers" -> domain.root_order - 1
      [] strategy = "more_layers" -> domain.root_order + 1
      [] strategy = "overlong_fri" -> domain.lde_root_order + 1
      [] OTHER -> domain.root_order

\* One more layer than the domain can be halved into: a single leaf holding
\* the folded polynomial's value, committed and challenged as the others
forged_layer(fri, coset_offset) ==
    LET layer == FriLayer_new(fri.last_poly, coset_offset, 1)
        t1 == TranscriptAppend(fri.before_last_value, "fri_root",
                               NodeBytes(MerkleRoot(layer.merkle_tree)))
        zeta == transcript_to_field(t1, "zeta")
        last_poly == fold_polynomial(layer.poly, zeta.val)
    IN  [last_value |-> PolyCoef(last_poly, 1),
         fri_layer_list |-> Append(fri.fri_layer_list, layer),
         zetas |-> Append(fri.zetas, zeta.val),
         last_poly |-> last_poly,
         before_last_value |-> zeta.t,
         t |-> TranscriptAppend(zeta.t, "last_value",
                                to_bytes_be(PolyCoef(last_poly, 1)))]

\* Round 1: trace commitment.  The value is the prover's state after the
\* round: what it computed so far and its transcript t.
prover_round_1(version, air, domain, seed, strategy) ==
    LET main == ProverTrace(air, strategy)
        main_polys == trace_polys(domain, main)
        main_tree == batch_commit(domain, main_polys)
        t1 == TranscriptAppend(NewTranscript(seed), "main_root",
                               NodeBytes(MerkleRoot(main_tree)))
        rap == build_rap_challenges(air, t1)
        aux_polys == trace_polys(domain, build_auxiliary_trace(air, main, rap.val))
        aux_tree == batch_commit(domain, aux_polys)
        has_aux == number_auxiliary_rap_columns(air) > 0
        sends_aux == IF strategy = "flip_aux_root" THEN ~has_aux ELSE has_aux
    IN  InOrder(<<main_polys, main_tree, t1, rap, aux_polys, aux_tree>>,
            [round |-> 1,
             defined |-> AuxTraceDefined(air, main, rap.val),
             polys |-> main_polys \o aux_polys,
             trace_trees |-> IF sends_aux THEN <<main_tree, aux_tree>> ELSE <<main_tree>>,
             rap_challenges |-> rap.val,
             t |-> IF sends_aux
                   THEN TranscriptAppend(rap.t, "aux_root", NodeBytes(MerkleRoot(aux_tree)))
                   ELSE rap.t])

\* Round 2: the composition polynomial, split and committed
prover_round_2(air, domain, r1) ==
    LET total_columns == air.trace_columns
        b_alphas == batch_sample_challenges(total_columns, r1.t, "coeff")
        b_betas == batch_sample_challenges(total_columns, b_alphas.t, "coeff")
        t_alphas == batch_sample_challenges(air.num_transition_constraints,
                                            b_betas.t, "coeff")
        t_betas == batch_sample_challenges(air.num_transition_constraints,
                                           t_alphas.t, "coeff")
        boundary_coeffs ==
            Vec([j \in 1 .. total_columns |-> <<b_alphas.vals[j], b_betas.vals[j]>>])
        transition_coeffs ==
            Vec([i \in 1 .. air.num_transition_constraints |->
                <<t_alphas.vals[i], t_betas.vals[i]>>])
        H == composition_poly(air, domain, r1.polys, boundary_coeffs,
                              transition_coeffs, r1.rap_challenges)
        composition_tree == batch_commit(domain, <<EvenPart(H), OddPart(H)>>)
    IN  InOrder(<<b_alphas, b_betas, t_alphas, t_betas, boundary_coeffs, transition_coeffs, H, composition_tree>>,
            [round |-> 2,
             defined |-> r1.defined,
             polys |-> r1.polys,
             trace_trees |-> r1.trace_trees,
             H1 |-> EvenPart(H),
             H2 |-> OddPart(H),
             composition_tree |-> composition_tree,
             t |-> TranscriptAppend(t_betas.t, "composition_root",
                                    NodeBytes(MerkleRoot(composition_tree)))])

\* Round 3: the out-of-domain point and the evaluations at it
prover_round_3(air, domain, r2) ==
    LET z == sample_z_ood(domain.lde_roots_of_unity_coset,
                          domain.trace_roots_of_unity, r2.t)
        z_squared == FMul(z.val, z.val)
        frame == frame_at(air, domain, r2.polys, z.val)
        h1 == PolyEval(r2.H1, z_squared)
        h2 == PolyEval(r2.H2, z_squared)
        t4 == TranscriptAppend(z.t, "h1", to_bytes_be(h1))
        t5 == TranscriptAppend(t4, "h2", to_bytes_be(h2))
    IN  InOrder(<<z, frame, h1, h2, t4, t5>>,
            [round |-> 3,
             defined |-> r2.defined /\ z.found,
             polys |-> r2.polys,
             trace_trees |-> r2.trace_trees,
             H1 |-> r2.H1,
             H2 |-> r2.H2,
             composition_tree |-> r2.composition_tree,
             z |-> z.val,
             trace_ood_frame_evaluations |-> frame,
             composition_poly_even_ood_evaluation |-> h1,
             composition_poly_odd_ood_evaluation |-> h2,
             t |-> AppendFieldElements(t5, "ood", Flatten(frame))])

\* Round 4: the Deep composition polynomial
prover_round_4(air, domain, strategy, r3) ==
    LET total_columns == air.trace_columns
        gamma_even == transcript_to_field(r3.t, "gamma_split")
        gamma_odd == transcript_to_field(gamma_even.t, "gamma_split")
        n_offsets == Len(air.transition_offsets)
        gammas == batch_sample_challenges(total_columns * n_offsets, gamma_odd.t, "gamma")
        trace_term_coeffs ==
            Vec([j \in 1 .. total_columns |->
                Vec([k \in 1 .. n_offsets |-> gammas.vals[(j - 1) * n_offsets + k]])])
        deep == compute_deep_composition_poly(air, domain, r3.polys, r3.H1, r3.H2,
                    r3.z, gamma_even.val, gamma_odd.val, trace_term_coeffs)
    IN  InOrder(<<gamma_even, gamma_odd, gammas, trace_term_coeffs>>,
            [round |-> 4,
             deep_composition_poly |->
                IF strategy = "shifted_deep" THEN PolyAdd(deep, <<1>>) ELSE deep,
             t |-> gammas.t] @@ r3)

\* What the prover sends of a FRI commit phase, and its transcript after it
fri_as_sent(strategy, commit) ==
    [fri_layers |-> commit.fri_layer_list,
     fri_last_value |->
        IF strategy = "bad_last_value" THEN FAdd(commit.last_value, 1)
        ELSE commit.last_value,
     t |-> IF strategy = "bad_last_value"
           THEN TranscriptAppend(commit.before_last_value, "last_value",
                                 to_bytes_be(FAdd(commit.last_value, 1)))
           ELSE commit.t]

\* The FRI commit phase as fri_commit_phase made it: where its transcript
\* started and ended, its challenges, roots and last value
fri_as_made(number_layers, start, commit) ==
    [start |-> start, end |-> commit.t, zetas |-> commit.zetas,
     roots |-> Vec([k \in 1 .. Len(commit.fri_layer_list) |->
                   MerkleRoot(commit.fri_layer_list[k].merkle_tree)]),
     last_value |-> commit.last_value,
     number_layers |-> number_layers]

\* Round 4: the FRI commit phase over the Deep composition polynomial
prover_fri_commit(air, domain, strategy, r4) ==
    LET commit == fri_commit_phase(number_layers_of(strategy, domain),
                                   r4.deep_composition_poly, r4.t,
                                   domain.coset_offset,
                                   Len(domain.lde_roots_of_unity_coset))
    IN  [round |-> 5,
         made |-> commit,
         fri |-> fri_as_made(number_layers_of(strategy, domain), r4.t, commit)] @@ r4

\* Round 4: what is sent of the FRI commit phase
prover_fri_send(strategy, r5) ==
    [round |-> 6] @@
    fri_as_sent(strategy, IF strategy = "overlong_fri"
                          THEN forged_layer(r5.made, 1) ELSE r5.made) @@ r5

\* Round 4: the grinding
prover_grinding(version, air, r6) ==
    LET nonce == IF version = "starks"
                 THEN generate_nonce_with_grinding(TranscriptChallenge(r6.t),
                                                   air.options.grinding_factor)
                 ELSE 0
    IN  InOrder(<<nonce>>,
            [round |-> 7,
             defined |-> r6.defined /\ nonce <= MaxNonce,
             nonce |-> nonce,
             t |-> IF version = "starks"
                   THEN TranscriptAppend(TranscriptAfterChallenge(r6.t, "grinding"),
                                         "nonce", to_bytes_be(nonce))
                   ELSE r6.t] @@ r6)

\* The query phase and the proof put together
prover_queries(version, air, domain, r7) ==
    LET query == fri_query_phase(version, air, Len(domain.lde_roots_of_unity_coset),
                                 r7.fri_layers, r7.t)
        opening(iota) == open_deep_composition_poly(domain, r7.trace_trees,
                            r7.composition_tree, r7.polys, r7.H1, r7.H2, iota)
    IN  [proof |->
            [lde_trace_merkle_roots |->
                Vec([i \in 1 .. Len(r7.trace_trees) |-> MerkleRoot(r7.trace_trees[i])]),
             trace_ood_frame_evaluations |-> r7.trace_ood_frame_evaluations,
             composition_poly_root |-> MerkleRoot(r7.composition_tree),
             composition_poly_even_ood_evaluation |->
                r7.composition_poly_even_ood_evaluation,
             composition_poly_odd_ood_evaluation |->
                r7.composition_poly_odd_ood_evaluation,
             fri_layers_merkle_roots |->
                Vec([k \in 1 .. Len(r7.fri_layers) |-> MerkleRoot(r7.fri_layers[k].merkle_tree)]),
             fri_last_value |-> r7.fri_last_value,
             query_list |-> query.query_list,
             deep_poly_openings |->
                IF version = "legacy" THEN opening(query.iotas[1])
                ELSE Vec([s \in 1 .. Len(query.iotas) |-> opening(query.iotas[s])]),
             nonce |-> r7.nonce],
         transcript |-> query.t]

(***************************************************************************)
(* Proofs altered after the prover made them.                               *)
(***************************************************************************)
\* The alterations of one trace OOD evaluation: the row (offset) and the
\* column of the frame's element that gets 1 added
TraceOodCells ==
    [trace_ood_1_1 |-> <<1, 1>>, trace_ood_1_2 |-> <<1, 2>>, trace_ood_1_3 |-> <<1, 3>>,
     trace_ood_2_1 |-> <<2, 1>>, trace_ood_2_2 |-> <<2, 2>>, trace_ood_2_3 |-> <<2, 3>>,
     trace_ood_3_1 |-> <<3, 1>>, trace_ood_3_2 |-> <<3, 2>>, trace_ood_3_3 |-> <<3, 3>>]

TamperKinds ==
    {"drop_queries", "short_queries", "short_trace_evaluations",
     "no_layer_evaluations", "no_trace_roots", "decrement_nonce", "bad_ood",
     "bad_decommitment", "bad_opening"} \cup DOMAIN TraceOodCells

\* The first DeepPolynomialOpenings of the proof, replaced
with_first_opening(version, pf, opening) ==
    IF version = "legacy" THEN [pf EXCEPT !.deep_poly_openings = opening]
    ELSE [pf EXCEPT !.deep_poly_openings[1] = opening]

first_opening(version, pf) ==
    IF version = "legacy" THEN pf.deep_poly_openings ELSE pf.deep_poly_openings[1]

tamper_applies(kind, version, pf) ==
    CASE kind = "short_queries" -> Len(pf.query_list) >= 2
      [] kind = "no_layer_evaluations" -> version = "starks"
      [] kind = "decrement_nonce" -> version = "starks"
      [] kind \in DOMAIN TraceOodCells ->
            /\ TraceOodCells[kind][1] \in DOMAIN pf.trace_ood_frame_evaluations
            /\ TraceOodCells[kind][2] \in
                  DOMAIN pf.trace_ood_frame_evaluations[TraceOodCells[kind][1]]
      [] OTHER -> TRUE

tampered(kind, version, pf) ==
    CASE kind = "drop_queries" ->
            IF version = "legacy" THEN [pf EXCEPT !.query_list = <<>>]
            ELSE [pf EXCEPT !.query_list = <<>>, !.deep_poly_openings = <<>>]
      [] kind = "short_queries" ->
            IF version = "legacy" THEN [pf EXCEPT !.query_list = Take(@, 1)]
            ELSE [pf EXCEPT !.query_list = Take(@, 1),
                            !.deep_poly_openings = Take(@, 1)]
      [] kind = "short_trace_evaluations" ->
            with_first_opening(version, pf,
                [first_opening(version, pf) EXCEPT !.lde_trace_evaluations = <<>>])
      [] kind = "no_layer_evaluations" ->
            [pf EXCEPT !.query_list[1].layers_evaluations = <<>>]
      [] kind = "no_trace_roots" -> [pf EXCEPT !.lde_trace_merkle_roots = <<>>]
      [] kind = "decrement_nonce" ->
            [pf EXCEPT !.nonce = (@ + Pow2(8 * WordLen) - 1) % Pow2(8 * WordLen)]
      [] kind = "bad_ood" ->
            [pf EXCEPT !.composition_poly_even_ood_evaluation = FAdd(@, 1)]
      [] kind \in DOMAIN TraceOodCells ->
            [pf EXCEPT !.trace_ood_frame_evaluations[TraceOodCells[kind][1]]
                                                    [TraceOodCells[kind][2]] =
                            FAdd(@, 1)]
      [] kind = "bad_decommitment" ->
            [pf EXCEPT !.query_list[1].layers_evaluations_sym[1] = FAdd(@, 1)]
      [] kind = "bad_opening" ->
            with_first_opening(version, pf,
                [first_opening(version, pf) EXCEPT
                    !.lde_composition_poly_even_evaluation = FAdd(@, 1)])

(***************************************************************************)
(* The constraint evaluator: ConstraintEvaluator::evaluate of               *)
(* src/src/starks/constraints/evaluator.rs.  The LDE trace is held by       *)
(* columns; an index into a Rust vector is one more here.                   *)
(***************************************************************************)
\* evaluate_polynomial_on_lde_domain: the polynomial at offset * w^i for the
\* blowup_factor * domain_size powers of the primitive root w of that order
evaluate_polynomial_on_lde_domain(poly, blowup_factor, domain_size, offset) ==
    LET points == get_powers_of_primitive_root_coset(
                      trailing_zeros(blowup_factor * domain_size),
                      blowup_factor * domain_size, offset)
    IN  Vec([i \in 1 .. Len(points) |-> PolyEval(poly, points[i])])

\* Frame::read_from_trace: row k of the frame is the row of the LDE trace
\* blowup * offsets[k] rows after the row step, around the table
read_from_trace(lde_trace, step, blowup, offsets) ==
    LET n_rows == Len(lde_trace[1])
    IN  Vec([k \in 1 .. Len(offsets) |->
            Vec([j \in 1 .. Len(lde_trace) |->
                lde_trace[j][((step + blowup * offsets[k]) % n_rows) + 1]])])

\* ConstraintEvaluator::new
ConstraintEvaluator_new(air, polys, primitive_root) ==
    [air |-> air,
     boundary_constraints |-> boundary_constraints(air),
     trace_polys |-> polys,
     primitive_root |-> primitive_root]

\* The inverses of x - g^step over the LDE coset, where step runs over the
\* positions 0 .. number_of_b_constraints - 1 of the list of constraints
boundary_zerofiers_inverse_evaluations(constraints, domain) ==
    Vec([index \in 1 .. Len(constraints) |->
        LET point == FPow(domain.trace_primitive_root, index - 1)
        IN  inplace_batch_inverse(
                Vec([i \in 1 .. Len(domain.lde_roots_of_unity_coset) |->
                    FSub(domain.lde_roots_of_unity_coset[i], point)]))])

\* d^(D - n) over the LDE coset
d_adjustment_power(air, domain) ==
    LET boundary_term_degree_adjustment ==
            composition_poly_degree_bound(air) - air.trace_length
    IN  Vec([i \in 1 .. Len(domain.lde_roots_of_unity_coset) |->
            FPow(domain.lde_roots_of_unity_coset[i], boundary_term_degree_adjustment)])

\* trace_polys[col] - value over the LDE coset, one row per constraint
boundary_polys_evaluations(evaluator, domain) ==
    LET constraints == evaluator.boundary_constraints
    IN  Vec([index \in 1 .. Len(constraints) |->
            evaluate_polynomial_on_lde_domain(
                PolySub(evaluator.trace_polys[constraints[index].col + 1],
                        <<constraints[index].value>>),
                domain.blowup_factor, domain.interpolation_domain_size,
                domain.coset_offset)])

\* The term one boundary constraint adds at LDE index i (from 0)
boundary_term(evaluator, domain, boundary_coeffs, index, i) ==
    FMul(FMul(boundary_zerofiers_inverse_evaluations(
                  evaluator.boundary_constraints, domain)[index][i + 1],
              FAdd(FMul(boundary_coeffs[index][1],
                        d_adjustment_power(evaluator.air, domain)[i + 1]),
                   boundary_coeffs[index][2])),
         boundary_polys_evaluations(evaluator, domain)[index][i + 1])

\* boundary_evaluation: the fold of the terms of the constraints, per index
boundary_evaluation(evaluator, domain, boundary_coeffs) ==
    LET inverses == boundary_zerofiers_inverse_evaluations(
                        evaluator.boundary_constraints, domain)
        powers == d_adjustment_power(evaluator.air, domain)
        polys_evaluations == boundary_polys_evaluations(evaluator, domain)
    IN  InOrder(<<inverses, powers, polys_evaluations>>,
            Vec([i \in 1 .. Len(domain.lde_roots_of_unity_coset) |->
                FSum(Vec([index \in 1 .. Len(evaluator.boundary_constraints) |->
                    FMul(FMul(inverses[index][i],
                              FAdd(FMul(boundary_coeffs[index][1], powers[i]),
                                   boundary_coeffs[index][2])),
                         polys_evaluations[index][i])]))]))

\* evaluate_transition_exemptions: the work on one exemption polynomial
evaluate_transition_exemption(exemption, domain) ==
    evaluate_polynomial_on_lde_domain(exemption, domain.blowup_factor,
        domain.interpolation_domain_size, domain.coset_offset)

\* evaluate_transition_exemptions, collected in the order of the exemptions
evaluate_transition_exemptions(exemptions, domain) ==
    Vec([c \in 1 .. Len(exemptions) |->
        evaluate_transition_exemption(exemptions[c], domain)])

\* max of context.transition_degrees
max_transition_degree(air) ==
    CHOOSE d \in Range(air.transition_degrees) :
        \A e \in Range(air.transition_degrees) : e <= d

\* The row of the degree adjustments of one transition degree:
\* d^(D - n * (transition_degree - 1)) over the LDE coset
degree_adjustment_row(air, domain, transition_degree) ==
    LET degree_adjustment ==
            composition_poly_degree_bound(air)
                - air.trace_length * (transition_degree - 1)
    IN  Vec([i \in 1 .. Len(domain.lde_roots_of_unity_coset) |->
            FPow(domain.lde_roots_of_unity_coset[i], degree_adjustment)])

\* degree_adjustments: one row per degree 1 ..= max_transition_degree
degree_adjustments(air, domain) ==
    Vec([transition_degree \in 1 .. max_transition_degree(air) |->
        degree_adjustment_row(air, domain, transition_degree)])

\* The inverses of x^n - 1 over the LDE coset: x^n takes blowup_factor values
zerofier_evaluations(air) ==
    LET blowup_factor == air.options.blowup_factor
        offset_pow == FPow(air.options.coset_offset, air.trace_length)
        powers == get_powers_of_primitive_root_coset(
                      trailing_zeros(blowup_factor), blowup_factor, offset_pow)
    IN  inplace_batch_inverse(Vec([i \in 1 .. Len(powers) |-> FSub(powers[i], 1)]))

\* exemption / zerofier over the LDE coset, one row per constraint
transition_zerofiers_inverse_evaluations(air, transition_exemptions_evaluations) ==
    LET inverses == zerofier_evaluations(air)
    IN  Vec([c \in 1 .. Len(transition_exemptions_evaluations) |->
            Vec([i \in 1 .. Len(transition_exemptions_evaluations[c]) |->
                FMul(inverses[((i - 1) % Len(inverses)) + 1],
                     transition_exemptions_evaluations[c][i])])])

\* The closure of evaluations_t at LDE index i (from 0): what it reads is
\* the LDE trace, the tables made before it and the coefficients
evaluations_t_at(evaluator, lde_trace, tables, transition_coeffs, rap_challenges, i) ==
    LET context == evaluator.air
        frame == read_from_trace(lde_trace, i, context.options.blowup_factor,
                                 context.transition_offsets)
        evaluations_transition == compute_transition(context, frame, rap_challenges)
        denominators ==
            Vec([c \in 1 .. Len(tables.transition_zerofiers_inverse_evaluations) |->
                tables.transition_zerofiers_inverse_evaluations[c][i + 1]])
        adjustments ==
            Vec([c \in 1 .. Len(context.transition_degrees) |->
                tables.degree_adjustments[context.transition_degrees[c]][i + 1]])
    IN  FAdd(compute_constraint_composition_poly_evaluations_sum(
                 evaluations_transition, denominators, adjustments,
                 transition_coeffs),
             tables.boundary_evaluation[i + 1])

\* ConstraintEvaluator::evaluate, every iterator run in order:
\* evaluation_table.evaluations_acc
evaluate(evaluator, lde_trace, domain, transition_coeffs, boundary_coeffs, rap_challenges) ==
    LET tables ==
            [boundary_evaluation |->
                boundary_evaluation(evaluator, domain, boundary_coeffs),
             transition_zerofiers_inverse_evaluations |->
                transition_zerofiers_inverse_evaluations(evaluator.air,
                    evaluate_transition_exemptions(
                        transition_exemptions(evaluator.air), domain)),
             degree_adjustments |-> degree_adjustments(evaluator.air, domain)]
    IN  InOrder(<<tables>>,
            Vec([i \in 1 .. Len(domain.lde_roots_of_unity_coset) |->
                evaluations_t_at(evaluator, lde_trace, tables, transition_coeffs,
                                 rap_challenges, i - 1)]))

\* What the prover hands to evaluate in round 2: the evaluator on the trace
\* polynomials of round 1, their evaluations over the LDE coset, and one
\* pair of coefficients per transition constraint and per boundary constraint
EvaluatorCall(air, domain, seed) ==
    LET r1 == prover_round_1("starks", air, domain, seed, "honest")
        evaluator == ConstraintEvaluator_new(air, r1.polys, domain.trace_primitive_root)
        n_boundary == Len(evaluator.boundary_constraints)
        b_alphas == batch_sample_challenges(n_boundary, r1.t, "coeff")
        b_betas == batch_sample_challenges(n_boundary, b_alphas.t, "coeff")
        t_alphas == batch_sample_challenges(air.num_transition_constraints,
                                            b_betas.t, "coeff")
        t_betas == batch_sample_challenges(air.num_transition_constraints,
                                           t_alphas.t, "coeff")
    IN  InOrder(<<r1, evaluator, b_alphas, b_betas, t_alphas, t_betas>>,
            [evaluator |-> evaluator,
             lde_trace |->
                Vec([j \in 1 .. Len(r1.polys) |->
                    evaluate_polynomial_on_lde_domain(r1.polys[j], domain.blowup_factor,
                        domain.interpolation_domain_size, domain.coset_offset)]),
             defined |-> r1.defined,
             boundary_coeffs |->
                Vec([j \in 1 .. n_boundary |-> <<b_alphas.vals[j], b_betas.vals[j]>>]),
             transition_coeffs |->
                Vec([c \in 1 .. air.num_transition_constraints |->
                    <<t_alphas.vals[c], t_betas.vals[c]>>]),
             rap_challenges |-> r1.rap_challenges])

(***************************************************************************)
(* The state: one run of a prover followed by one call of verify.           *)
(*   version, air, seed, strategy: the verifier built, the AIR, the         *)
(*     transcript's initial state, the prover                               *)
(*   prover: the prover's state between rounds; proof: the StarkProof       *)
(*   prover_fri: what fri_commit_phase did to the prover's transcript       *)
(*   prover_transcript: the prover's transcript when it returned            *)
(*   tamper: how the proof was altered on its way to the verifier           *)
(*   pc: where the run is; transcript, challenges: the verifier's           *)
(*   replay: the verifier's transcript before and after the FRI replay      *)
(*   steps_run: the steps verify entered, in order; steps_passed: the ones  *)
(*     that returned normally with a positive result                        *)
(*   fri_checked, deep_checked: the queries step 3 and step 4 went through  *)
(*   result: "none" while verify runs, then "true", "false" or "abort"      *)
(***************************************************************************)
VARIABLES version, air, domain, seed, strategy, prover, proof, prover_fri,
          prover_transcript, tamper, pc, transcript, challenges, replay,
          steps_run, steps_passed, fri_checked, deep_checked, result

vars == <<version, air, domain, seed, strategy, prover, proof, prover_fri,
          prover_transcript, tamper, pc, transcript, challenges, replay,
          steps_run, steps_passed, fri_checked, deep_checked, result>>

input_vars == <<version, air, domain, seed, strategy>>
verifier_vars == <<transcript, challenges, replay, steps_run, steps_passed,
                   fri_checked, deep_checked, result>>
prover_vars == <<prover, proof, prover_fri, prover_transcript>>

Versions == {"legacy", "starks"}

None == [none |-> TRUE]

Init ==
    /\ version \in Versions
    /\ air \in AIRs
    /\ domain = DomainOf(air)
    /\ seed \in 0 .. MaxSeed
    /\ strategy \in Strategies
    /\ strategy \in DOMAIN BrokenPermutations => air.name = "FibonacciRAP"
    /\ prover = [round |-> 0]
    /\ proof = None
    /\ prover_fri = None
    /\ prover_transcript = NewTranscript(seed)
    /\ tamper = "none"
    /\ pc = "prove"
    /\ transcript = NewTranscript(seed)
    /\ challenges = None
    /\ replay = None
    /\ steps_run = <<>>
    /\ steps_passed = {}
    /\ fri_checked = {}
    /\ deep_checked = {}
    /\ result = "none"

\* prove, round by round
ProveRound1 ==
    /\ pc = "prove" /\ prover.round = 0
    /\ prover' = prover_round_1(version, air, domain, seed, strategy)
    /\ UNCHANGED <<input_vars, proof, prover_fri, prover_transcript, tamper, pc,
                   verifier_vars>>

ProveRound2 ==
    /\ pc = "prove" /\ prover.round = 1 /\ prover.defined
    /\ prover' = prover_round_2(air, domain, prover)
    /\ UNCHANGED <<input_vars, proof, prover_fri, prover_transcript, tamper, pc,
                   verifier_vars>>

ProveRound3 ==
    /\ pc = "prove" /\ prover.round = 2
    /\ prover' = prover_round_3(air, domain, prover)
    /\ UNCHANGED <<input_vars, proof, prover_fri, prover_transcript, tamper, pc,
                   verifier_vars>>

ProveRound4 ==
    /\ pc = "prove" /\ prover.round = 3 /\ prover.defined
    /\ prover' = prover_round_4(air, domain, strategy, prover)
    /\ UNCHANGED <<input_vars, proof, prover_fri, prover_transcript, tamper, pc,
                   verifier_vars>>

ProveFriCommit ==
    /\ pc = "prove" /\ prover.round = 4
    /\ prover' = prover_fri_commit(air, domain, strategy, prover)
    /\ UNCHANGED <<input_vars, proof, prover_fri, prover_transcript, tamper, pc,
                   verifier_vars>>

ProveFriSend ==
    /\ pc = "prove" /\ prover.round = 5
    /\ prover' = prover_fri_send(strategy, prover)
    /\ UNCHANGED <<input_vars, proof, prover_fri, prover_transcript, tamper, pc,
                   verifier_vars>>

ProveGrinding ==
    /\ pc = "prove" /\ prover.round = 6
    /\ prover' = prover_grinding(version, air, prover)
    /\ UNCHANGED <<input_vars, proof, prover_fri, prover_transcript, tamper, pc,
                   verifier_vars>>

\* The queries are answered and the proof is put together
ProveDone(made) ==
    /\ proof' = made.proof
    /\ prover_transcript' = made.transcript

ProveQueries ==
    /\ pc = "prove" /\ prover.round = 7 /\ prover.defined
    /\ ProveDone(prover_queries(version, air, domain, prover))
    /\ prover_fri' = prover.fri
    /\ prover' = [round |-> 8]
    /\ pc' = "proved"
    /\ UNCHANGED <<input_vars, tamper, verifier_vars>>

\* The proof reaches the verifier altered
Tamper ==
    /\ pc = "proved" /\ strategy = "honest" /\ tamper = "none"
    /\ \E kind \in TamperKinds :
          /\ tamper_applies(kind, version, proof)
          /\ tamper' = kind
          /\ proof' = tampered(kind, version, proof)
    /\ UNCHANGED <<input_vars, prover, prover_fri, prover_transcript, pc,
                   verifier_vars>>

\* The verifier is given the AIR with a public input that differs from the
\* prover's in one boundary value
ChangePublicInput ==
    /\ pc = "proved" /\ strategy = "honest" /\ tamper = "none"
    /\ air.name = "QuadraticAIR"
    /\ \E value \in FE \ {air.boundary_value} :
          air' = [air EXCEPT !.boundary_value = value]
    /\ tamper' = "public_input"
    /\ UNCHANGED <<version, domain, seed, strategy, prover_vars, pc, verifier_vars>>

\* verify: how a step ends the call
Return(value) ==
    /\ result' = value
    /\ pc' = "done"

\* Step 1 went through: the verifier holds the challenges
Step1Recovered(recovered) ==
    /\ recovered.z_found
    /\ transcript' = recovered.transcript
    /\ challenges' = recovered.challenges
    /\ replay' = [fri_start |-> recovered.fri_start, fri_end |-> recovered.fri_end]
    /\ steps_passed' = {1}
    /\ pc' = IF version = "starks" THEN "grinding" ELSE "step2"
    /\ UNCHANGED result

\* verify, step 1: the transcript is initialised, the AIR's domain built and
\* the rounds replayed
VerifyStep1 ==
    /\ pc = "proved"
    /\ steps_run' = <<1>>
    /\ IF step_1_aborts(proof)
       THEN /\ Return("abort")
            /\ UNCHANGED <<transcript, challenges, replay, steps_passed>>
       ELSE Step1Recovered(step_1_replay_rounds_and_recover_challenges(
                version, air, proof, domain, NewTranscript(seed)))
    /\ UNCHANGED <<input_vars, prover_vars, tamper, fri_checked, deep_checked>>

\* The grinding check left out: verify goes on to step 2 whatever the count
VerifyGrinding_skipped ==
    /\ pc = "grinding"
    /\ pc' = "step2"
    /\ UNCHANGED <<input_vars, prover_vars, tamper, transcript, challenges, replay,
                   steps_run, steps_passed, fri_checked, deep_checked, result>>

\* verify: the grinding check between step 1 and step 2
VerifyGrinding ==
    /\ pc = "grinding"
    /\ IF challenges.leading_zeros_count < air.options.grinding_factor
       THEN Return("false")
       ELSE pc' = "step2" /\ UNCHANGED result
    /\ UNCHANGED <<input_vars, prover_vars, tamper, transcript, challenges, replay,
                   steps_run, steps_passed, fri_checked, deep_checked>>

\* Step 2 without the early return: verify goes on to step 3 when it fails
VerifyStep2_without_return ==
    /\ pc = "step2"
    /\ steps_run' = Append(steps_run, 2)
    /\ IF step_2_aborts(version, air, proof, domain, challenges)
       THEN Return("abort") /\ UNCHANGED steps_passed
       ELSE /\ pc' = "step3"
            /\ steps_passed' =
                  IF step_2_verify_claimed_composition_polynomial(
                         version, air, proof, domain, challenges)
                  THEN steps_passed \cup {2} ELSE steps_passed
            /\ UNCHANGED result
    /\ UNCHANGED <<input_vars, prover_vars, tamper, transcript, challenges, replay,
                   fri_checked, deep_checked>>

VerifyStep2 ==
    /\ pc = "step2"
    /\ steps_run' = Append(steps_run, 2)
    /\ IF step_2_aborts(version, air, proof, domain, challenges)
       THEN Return("abort") /\ UNCHANGED steps_passed
       ELSE IF step_2_verify_claimed_composition_polynomial(
                    version, air, proof, domain, challenges)
       THEN /\ pc' = "step3"
            /\ steps_passed' = steps_passed \cup {2}
            /\ UNCHANGED result
       ELSE Return("false") /\ UNCHANGED steps_passed
    /\ UNCHANGED <<input_vars, prover_vars, tamper, transcript, challenges, replay,
                   fri_checked, deep_checked>>

\* Step 3.  overflow_checks: whether the build traps arithmetic overflow
VerifyStep3 ==
    /\ pc = "step3"
    /\ steps_run' = Append(steps_run, 3)
    /\ \E overflow_checks \in BOOLEAN :
          LET outcomes == step_3_outcomes(version, air, proof, domain,
                                          challenges, overflow_checks)
          IN  /\ fri_checked' = step_3_examined(outcomes)
              /\ IF step_3_aborts(outcomes)
                 THEN Return("abort") /\ UNCHANGED steps_passed
                 ELSE IF step_3_verify_fri(outcomes)
                 THEN /\ pc' = "step4"
                      /\ steps_passed' = steps_passed \cup {3}
                      /\ UNCHANGED result
                 ELSE Return("false") /\ UNCHANGED steps_passed
    /\ UNCHANGED <<input_vars, prover_vars, tamper, transcript, challenges, replay,
                   deep_checked>>

VerifyStep4 ==
    /\ pc = "step4"
    /\ steps_run' = Append(steps_run, 4)
    /\ IF step_4_aborts(version, air, proof, domain, challenges)
       THEN Return("abort") /\ UNCHANGED <<steps_passed, deep_checked>>
       ELSE /\ deep_checked' = step_4_checked(version, proof, challenges)
            /\ IF step_4_verify_deep_composition_polynomial(
                      version, air, proof, domain, challenges)
               THEN Return("true") /\ steps_passed' = steps_passed \cup {4}
               ELSE Return("false") /\ UNCHANGED steps_passed
    /\ UNCHANGED <<input_vars, prover_vars, tamper, transcript, challenges, replay,
                   fri_checked>>

Next ==
    \/ ProveRound1
    \/ ProveRound2
    \/ ProveRound3
    \/ ProveRound4
    \/ ProveFriCommit
    \/ ProveFriSend
    \/ ProveGrinding
    \/ ProveQueries
    \/ Tamper
    \/ ChangePublicInput
    \/ VerifyStep1
    \/ VerifyGrinding
    \/ VerifyStep2
    \/ VerifyStep3
    \/ VerifyStep4

Spec == Init /\ [][Next]_vars


(***************************************************************************)
(* The claims.                                                              *)
(***************************************************************************)
fri_number_of_queries == air.options.fri_number_of_queries

\* verify has returned
Returned == pc = "done"

NoPartialAcceptance ==
    result = "true" =>
        /\ fri_checked = 1 .. fri_number_of_queries
        /\ deep_checked = 1 .. fri_number_of_queries

\* C3: verify never aborts: whatever the proof, it ends with a boolean, with
\* no out-of-range index, failed unwrap or shift underflow.
NeverAborts == result # "abort"

\* The value v of verify_query_and_sym_openings after the fold through the
\* layers k .. m of the decommitment
RECURSIVE folded_value(_, _, _, _, _, _)
folded_value(v, evaluations_sym, zetas, evaluation_point, k, m) ==
    IF k > m THEN v
    ELSE folded_value(legacy_fold(v, evaluations_sym[k], zetas[k], evaluation_point),
                      evaluations_sym, zetas, FMul(evaluation_point, evaluation_point),
                      k + 1, m)

\* The last folded value of query s (counted from 1) of the proof
last_folded_value(s) ==
    LET fri_decommitment == proof.query_list[s]
        first == IF version = "legacy" THEN fri_decommitment.first_layer_evaluation
                 ELSE fri_decommitment.layers_evaluations[1]
    IN  folded_value(first, fri_decommitment.layers_evaluations_sym, challenges.zetas,
                     domain.lde_roots_of_unity_coset[challenges.iotas[s] + 1], 1,
                     Min(Len(proof.fri_layers_merkle_roots),
                         Len(fri_decommitment.layers_evaluations_sym)))

\* C4: FRI final-value check.  For every query the value folded through every
\* FRI layer equals proof.fri_last_value, or verify rejects the proof.
FriFinalValueCheck ==
    result = "true" =>
        \A s \in fri_checked : last_folded_value(s) = proof.fri_last_value

\* C5: Deep consistency at every query.  verify returns false unless, for
\* each of the fri_number_of_queries iotas, the Deep value recomputed at the
\* LDE point of that iota from the openings of the proof equals the first
\* layer evaluation claimed for the same iota.
DeepConsistencyAtEveryQuery ==
    result = "true" =>
        \A i \in 1 .. Len(challenges.iotas) :
            /\ i \in deep_checked
            /\ deep_poly_claimed_evaluation(version, proof, i)
                 = reconstruct_deep_composition_poly_evaluation(
                       version, proof, domain, challenges, challenges.iotas[i],
                       deep_poly_opening_of(version, proof, i))

\* The operations made on a transcript that append something named what
appends_of(t, what) ==
    {i \in DOMAIN t.log : t.log[i][1] = "append" /\ t.log[i][2] = what}

\* C7: the verifier appends an auxiliary-trace root to the transcript if and
\* only if the AIR has auxiliary RAP columns, whatever roots the proof holds.
AuxRootIffAuxColumns ==
    1 \in steps_passed =>
        (appends_of(transcript, "aux_root") # {}
            <=> number_auxiliary_rap_columns(air) > 0)

\* Step 2 returned a boolean
Step2Returned ==
    /\ Len(steps_run) >= 2
    /\ ~(steps_run = <<1, 2>> /\ result = "abort")

\* C6: trace-composition consistency at z.  Step 2 returns true if and only
\* if H1(z^2) + z * H2(z^2) of the proof equals the sum of the boundary
\* quotients and of the transition quotients recomputed at z from the
\* received OOD frame.
TraceCompositionConsistency ==
    Step2Returned =>
        ((2 \in steps_passed) <=>
            FAdd(proof.composition_poly_even_ood_evaluation,
                 FMul(challenges.z, proof.composition_poly_odd_ood_evaluation))
              = composition_formula(air, domain, proof.trace_ood_frame_evaluations,
                    challenges.boundary_coeffs, challenges.transition_coeffs,
                    challenges.rap_challenges, challenges.z))

\* C6, the case: a proof whose H1(z^2) was altered is turned down by step 2
TraceCompositionWitness ==
    /\ Step2Returned /\ tamper = "bad_ood"
    /\ steps_run = <<1, 2>> /\ 2 \notin steps_passed
    /\ result = "false"

\* C8: verifier step order.  The steps run in the order 1, 2, 3, 4, each one
\* only if every earlier one passed; the first step that fails makes verify
\* return false with no later step run and none run twice; verify returns
\* true exactly when the four steps passed.
VerifierStepOrder ==
    /\ steps_run = SubSeq(<<1, 2, 3, 4>>, 1, Len(steps_run))
    /\ \A k \in 2 .. Len(steps_run) : (k - 1) \in steps_passed
    /\ \A k \in 1 .. Len(steps_run) :
          (k \notin steps_passed /\ result # "abort")
              => (result = "false" /\ Len(steps_run) = k)
    /\ (result = "true") <=> (steps_passed = {1, 2, 3, 4})

\* C8, the case: step 3 failed after steps 1 and 2 passed, and step 4 never ran
VerifierStepOrderWitness ==
    /\ Returned /\ result = "false"
    /\ steps_run = <<1, 2, 3>> /\ steps_passed = {1, 2}

\* Operations on a transcript as its log holds them
Appended(what, bytes) == <<"append", what, bytes>>
Drawn(what) == <<"challenge", what>>
Times(n, op) == [i \in 1 .. n |-> op]
AppendedEach(what, elements) ==
    [i \in 1 .. Len(elements) |-> Appended(what, to_bytes_be(elements[i]))]

\* For each root: append it, then draw a zeta
RootsAndZetas(merkle_roots) ==
    [i \in 1 .. 2 * Len(merkle_roots) |->
        IF i % 2 = 1 THEN Appended("fri_root", NodeBytes(merkle_roots[(i + 1) \div 2]))
        ELSE Drawn("zeta")]

\* The replay from the coefficient draws to the composition root
CoefficientsPart ==
    Times(2 * air.trace_columns + 2 * air.num_transition_constraints, Drawn("coeff"))
        \o <<Appended("composition_root", NodeBytes(proof.composition_poly_root))>>

\* The replay from the OOD evaluations to the last value of FRI
EvaluationsPart ==
    <<Appended("h1", to_bytes_be(proof.composition_poly_even_ood_evaluation)),
      Appended("h2", to_bytes_be(proof.composition_poly_odd_ood_evaluation))>>
        \o AppendedEach("ood", Flatten(proof.trace_ood_frame_evaluations))
        \o Times(2, Drawn("gamma_split"))
        \o Times(air.trace_columns * Len(air.transition_offsets), Drawn("gamma"))
        \o RootsAndZetas(proof.fri_layers_merkle_roots)
        \o <<Appended("last_value", to_bytes_be(proof.fri_last_value))>>

MainRootPart ==
    <<Appended("main_root", NodeBytes(proof.lde_trace_merkle_roots[1]))>>

AuxRootPart ==
    IF Len(proof.lde_trace_merkle_roots) >= 2
    THEN <<Appended("aux_root", NodeBytes(proof.lde_trace_merkle_roots[2]))>>
    ELSE <<>>

IotasPart == Times(fri_number_of_queries, Drawn("iota"))

GrindingPart ==
    IF version = "starks"
    THEN <<Drawn("grinding"), Appended("nonce", to_bytes_be(proof.nonce))>>
    ELSE <<>>

\* What build_rap_challenges draws after the main root
RapPart == IF air.name = "FibonacciRAP" THEN <<Drawn("rap")>> ELSE <<>>

SameFriStart ==
    /\ 1 \in steps_passed
    /\ replay.fri_start = prover_fri.start
    /\ proof.fri_layers_merkle_roots = prover_fri.roots
    /\ proof.fri_last_value = prover_fri.last_value

\* C10: from equal transcripts, fri_commit_phase with number_layers >= 1 and
\* the replay of its roots and last value make the same operations (for each
\* root: append it, draw a zeta; then append the last value), obtain the same
\* zetas, one per layer, and end in equal transcripts.
FriTranscriptAgreement ==
    SameFriStart =>
        /\ prover_fri.end.log =
              prover_fri.start.log \o RootsAndZetas(prover_fri.roots)
                  \o <<Appended("last_value", to_bytes_be(prover_fri.last_value))>>
        /\ Len(prover_fri.roots) = prover_fri.number_layers
        /\ replay.fri_end = prover_fri.end
        /\ challenges.zetas = prover_fri.zetas
        /\ Len(challenges.zetas) = prover_fri.number_layers

\* C10, the case: a commit phase of three layers replayed by the verifier
FriTranscriptAgreementWitness ==
    /\ SameFriStart
    /\ prover_fri.number_layers = 3
    /\ Len(challenges.zetas) = 3
    /\ replay.fri_end = prover_fri.end


(***************************************************************************)
(* The grinding check of src/src/starks/verifier.rs.                        *)
(***************************************************************************)
draws_of(t, what) == {i \in DOMAIN t.log : t.log[i] = Drawn(what)}

\* The leading zero bits of the digest of (c, proof.nonce), c the challenge
\* of the transcript as it was right after fri_last_value was appended
grinding_leading_zeros ==
    hash_transcript_with_int_and_get_leading_zeros(
        TranscriptChallenge(replay.fri_end), proof.nonce)

\* C11: in the verifier with grinding (src/src/starks), once step 1 replayed
\* the rounds: when the digest of (c, proof.nonce) has fewer than
\* grinding_factor leading zero bits, verify runs no step after step 1 and
\* returns false; and the nonce is in the transcript, right after the draw
\* of c that follows the last value, before every draw of an iota.
GrindingCheck ==
    (version = "starks" /\ 1 \in steps_passed) =>
        /\ grinding_leading_zeros < air.options.grinding_factor =>
              /\ steps_run = <<1>>
              /\ pc \in {"grinding", "done"}
              /\ Returned => result = "false"
        /\ \E n \in appends_of(transcript, "nonce") :
              /\ n >= 3
              /\ transcript.log[n] = Appended("nonce", to_bytes_be(proof.nonce))
              /\ transcript.log[n - 1] = Drawn("grinding")
              /\ transcript.log[n - 2] =
                    Appended("last_value", to_bytes_be(proof.fri_last_value))
              /\ \A i \in draws_of(transcript, "iota") : n < i
        /\ draws_of(transcript, "iota") # {}

\* C11, the case: a proof whose nonce was decremented has too few leading
\* zero bits and verify returned false after step 1
GrindingCheckWitness ==
    /\ version = "starks" /\ tamper = "decrement_nonce" /\ 1 \in steps_passed
    /\ grinding_leading_zeros < air.options.grinding_factor
    /\ Returned /\ result = "false" /\ steps_run = <<1>>


(***************************************************************************)
(* One trace OOD evaluation of an accepted proof altered.                   *)
(***************************************************************************)
\* The constraints, composed at z over the frame the proof holds, no longer
\* give the H1(z^2) + z * H2(z^2) of the proof
frame_contradicts_composition ==
    FAdd(proof.composition_poly_even_ood_evaluation,
         FMul(challenges.z, proof.composition_poly_odd_ood_evaluation))
      # composition_formula(air, domain, proof.trace_ood_frame_evaluations,
            challenges.boundary_coeffs, challenges.transition_coeffs,
            challenges.rap_challenges, challenges.z)

\* C12: the proof of the honest prover (which verify accepts) with 1 added
\* to a single trace OOD evaluation t_j(z g^k), nothing else changed, is
\* never accepted: verify returns false; and when the altered evaluation
\* changes the value of the constraints composed at z, it is step 2 that
\* returns false and no later step runs.
SoundnessSentinel ==
    (tamper \in DOMAIN TraceOodCells) =>
        /\ Returned => result = "false"
        /\ (Step2Returned /\ frame_contradicts_composition) =>
              /\ 2 \notin steps_passed
              /\ steps_run = <<1, 2>>
              /\ result = "false"

\* C12, the case: an altered evaluation that the constraints read, turned
\* down by step 2
SoundnessSentinelWitness ==
    /\ tamper \in DOMAIN TraceOodCells /\ strategy = "honest"
    /\ Step2Returned /\ frame_contradicts_composition
    /\ Returned /\ result = "false" /\ steps_run = <<1, 2>>


(***************************************************************************)
(* A proof verified under another public input.                             *)
(***************************************************************************)
\* The coefficient of column j's boundary quotient in the composition at
\* z: alpha_j * z^(D - n) + beta_j
boundary_term_coefficient(j) ==
    FAdd(FMul(challenges.boundary_coeffs[j][1],
              FPow(challenges.z, composition_poly_degree_bound(air) - air.trace_length)),
         challenges.boundary_coeffs[j][2])

BrokenPermutationRejected ==
    (strategy \in DOMAIN BrokenPermutations /\ tamper = "none" /\ Returned) =>
        result = "false"


\* C21: step 3 examines every (decommitment, iota) pair of the proof: once
\* step 3 has run, the queries it went through are all the pairs of
\* proof.query_list with challenges.iotas, whatever became of the earlier ones
FriExaminesEveryQuery ==
    3 \in Range(steps_run) =>
        fri_checked = 1 .. Min(Len(proof.query_list), Len(challenges.iotas))

\* C28: fri_query_phase with at least one layer and q >= 1 queries draws
\* exactly q indices, each reduced modulo domain_size; it returns q
\* decommitments in draw order, each with the first layer's evaluation and
\* path at its index and one symmetric evaluation and one path per layer,
\* and it returns the first index drawn (the prover opens the Deep
\* composition polynomial there)
FriQueryPhaseDecommits ==
    [][(pc = "prove" /\ pc' = "proved" /\ version = "legacy") =>
        LET fri_layers == prover.fri_layers
            q == air.options.fri_number_of_queries
            domain_size == Len(domain.lde_roots_of_unity_coset)
            before == prover.t.log
            after == prover_transcript'.log
            drawn == SampleIotas(prover.t, q, domain_size).vals
            query_list == proof'.query_list
        IN  /\ fri_layers # <<>> /\ q >= 1
            /\ after = before \o [s \in 1 .. q |-> Drawn("iota")]
            /\ Len(drawn) = q
            /\ \A s \in 1 .. q : drawn[s] \in 0 .. (domain_size - 1)
            /\ drawn[1] = transcript_to_usize(prover.t, "iota").val % domain_size
            /\ Len(query_list) = q
            /\ \A s \in 1 .. q :
                  /\ query_list[s].first_layer_evaluation
                        = fri_layers[1].evaluation[drawn[s] + 1]
                  /\ query_list[s].first_layer_auth_path
                        = get_proof_by_pos(fri_layers[1].merkle_tree, drawn[s])
                  /\ Len(query_list[s].layers_evaluations_sym) = Len(fri_layers)
                  /\ Len(query_list[s].layers_auth_paths_sym) = Len(fri_layers)
                  /\ \A k \in 1 .. Len(fri_layers) :
                        LET size == fri_layers[k].domain_size
                            sym == (drawn[s] + size \div 2) % size
                        IN  /\ query_list[s].layers_evaluations_sym[k]
                                  = fri_layers[k].evaluation[sym + 1]
                            /\ query_list[s].layers_auth_paths_sym[k]
                                  = get_proof_by_pos(fri_layers[k].merkle_tree, sym)
            /\ proof'.deep_poly_openings =
                  open_deep_composition_poly(domain, prover.trace_trees,
                      prover.composition_tree, prover.polys, prover.H1, prover.H2,
                      drawn[1])]_vars

\* A query phase of two queries over several layers has been run, and its
\* two decommitments differ
FriQueryPhaseWitness ==
    /\ pc = "proved" /\ version = "legacy"
    /\ Len(proof.query_list) = 2
    /\ Len(proof.query_list[1].layers_evaluations_sym) >= 2
    /\ proof.query_list[1] # proof.query_list[2]
    /\ Len(prover_transcript.log) >= 2
    /\ prover_transcript.log[Len(prover_transcript.log)] = Drawn("iota")
    /\ prover_transcript.log[Len(prover_transcript.log) - 1] = Drawn("iota")

(***************************************************************************)
(* The helpers on their own: Domain::new, sample_z_ood, the divisions of    *)
(* the verifier and AIR::transition_exemptions, applied to every context    *)
(* of a small family instead of the contexts of the tests only.             *)
(***************************************************************************)
\* The trace lengths and blowup factors: powers of two, the LDE domain no
\* larger than the 2^TwoAdicity roots of unity of the field
HelperTraceLengths == {2, 4}
HelperBlowupFactors == {2, 4}

\* ProofOptions validation as stated: coset_offset is nonzero and is not a
\* trace root
coset_offset_validated(coset_offset, trace_length) ==
    /\ coset_offset # 0
    /\ coset_offset \notin
          Range(get_powers_of_primitive_root_coset(
                    trailing_zeros(trace_length), trace_length, 1))

\* The contexts: simple_fibonacci::FibonacciAIR with a trace length, a
\* blowup factor, a validated coset offset and a number of exempted rows
HelperContexts ==
    {[name |-> "FibonacciAIR",
      trace_length |-> n,
      trace_columns |-> 1,
      transition_degrees |-> <<1>>,
      transition_exemptions |-> <<k>>,
      transition_offsets |-> <<0, 1, 2>>,
      num_transition_constraints |-> 1,
      options |-> [blowup_factor |-> b, fri_number_of_queries |-> 1,
                   coset_offset |-> c, grinding_factor |-> 1]] :
        <<n, b, c, k>> \in
            {x \in HelperTraceLengths \X HelperBlowupFactors \X FE \X (0 .. 4) :
                /\ coset_offset_validated(x[3], x[1])
                /\ x[4] <= x[1]}}

\* A proof with a well-formed OOD frame and a well-formed opening, every
\* evaluation zero: the divisors of the verifier do not read the evaluations
blank_proof(context) ==
    [trace_ood_frame_evaluations |->
        Vec([k \in 1 .. Len(context.transition_offsets) |->
            Vec([j \in 1 .. context.trace_columns |-> 0])]),
     deep_poly_openings |->
        [lde_trace_evaluations |-> Vec([j \in 1 .. context.trace_columns |-> 0])]]

\* The exempted rows of the Fibonacci context of the tests: the calls that read
\* no exemption are made on the contexts that have them
FibonacciExemptions == <<2>>

\* The polynomials fri_commit_phase is given
HelperPolynomials == {<<>>, <<1>>, <<3, 0, 1, 2>>}

HelperInit ==
    /\ version \in Versions
    /\ air \in HelperContexts
    /\ domain = None
    /\ seed \in 0 .. MaxSeed
    /\ strategy = "honest"
    /\ prover = [round |-> 0]
    /\ proof = blank_proof(air)
    /\ prover_fri = None
    /\ prover_transcript = NewTranscript(seed)
    /\ tamper = "none"
    /\ pc = "context"
    /\ transcript = NewTranscript(seed)
    /\ challenges = None
    /\ replay = None
    /\ steps_run = <<>>
    /\ steps_passed = {}
    /\ fri_checked = {}
    /\ deep_checked = {}
    /\ result = "none"

\* Domain::new
DomainNew ==
    /\ pc = "context"
    /\ domain' = DomainOf(air)
    /\ pc' = "domain"
    /\ UNCHANGED <<version, air, seed, strategy, prover_vars, tamper, verifier_vars>>

\* The contexts transition_exemptions is called on: the context itself, and
\* the context with a second transition constraint of its own exemption count
ExemptionContexts(context) ==
    {context} \cup
    {[context EXCEPT !.transition_exemptions = @ \o <<k>>,
                     !.transition_degrees = @ \o <<1>>,
                     !.num_transition_constraints = 2] :
        k \in 0 .. context.trace_length}

\* AIR::transition_exemptions, as the prover and the verifier call it
\* (the context has one exemption count per transition constraint)
TransitionExemptions ==
    /\ pc = "domain"
    /\ \E context \in ExemptionContexts(air) :
          prover' = [round |-> 0, context |-> context,
                     transition_exemptions |-> transition_exemptions(context)]
    /\ pc' = "exemptions"
    /\ UNCHANGED <<input_vars, proof, prover_fri, prover_transcript, tamper,
                   verifier_vars>>

\* sample_z_ood on the transcript; the call returns when a candidate is
\* outside both sets
SampleZOod ==
    /\ pc = "domain"
    /\ LET z == sample_z_ood(domain.lde_roots_of_unity_coset,
                             domain.trace_roots_of_unity, transcript)
       IN  /\ z.found
           /\ transcript' = z.t
           /\ challenges' =
                 [z |-> z.val,
                  trace_term_coeffs |->
                     Vec([j \in 1 .. air.trace_columns |->
                         Vec([k \in 1 .. Len(air.transition_offsets) |-> 0])])]
    /\ pc' = "z"
    /\ UNCHANGED <<input_vars, prover_vars, tamper, replay, steps_run, steps_passed,
                   fri_checked, deep_checked, result>>

\* The divisions step 2 and the Deep reconstruction make for z and for one
\* query index: the call goes on, or aborts on the inverse of zero
VerifierDivisions ==
    /\ pc = "z"
    /\ \E iota \in 0 .. (Len(domain.lde_roots_of_unity_coset) - 1) :
          /\ deep_checked' = {iota}
          /\ result' =
                IF \/ step_2_aborts(version, air, proof, domain, challenges)
                   \/ reconstruct_deep_aborts(version, proof, domain, challenges,
                                              iota, proof.deep_poly_openings)
                THEN "abort" ELSE "none"
    /\ pc' = "divided"
    /\ UNCHANGED <<input_vars, prover_vars, tamper, transcript, challenges, replay,
                   steps_run, steps_passed, fri_checked>>

\* The transition offsets of the contexts the Deep reconstruction is called
\* with: consecutive rows, and a frame that skips a row
DeepOffsets == {<<0, 1, 2>>, <<0, 2>>}

\* A proof with the OOD frame of a context and one opening: the evaluations
\* at the LDE point differ from every evaluation out of the domain
opened_proof(context) ==
    [trace_ood_frame_evaluations |->
        Vec([k \in 1 .. Len(context.transition_offsets) |->
            Vec([j \in 1 .. context.trace_columns |-> (2 * k + j) % P])]),
     composition_poly_even_ood_evaluation |-> 5,
     composition_poly_odd_ood_evaluation |-> 7,
     deep_poly_openings |->
        [lde_trace_evaluations |-> Vec([j \in 1 .. context.trace_columns |-> 1]),
         lde_composition_poly_even_evaluation |-> 3,
         lde_composition_poly_odd_evaluation |-> 11]]

\* Round 4 of step 1: gamma_even, gamma_odd and one gamma per trace column
\* and frame row, drawn after z
deep_challenges(context, z, t) ==
    LET gamma_even == transcript_to_field(t, "gamma_split")
        gamma_odd == transcript_to_field(gamma_even.t, "gamma_split")
        n_offsets == Len(context.transition_offsets)
        gammas == batch_sample_challenges(context.trace_columns * n_offsets,
                                          gamma_odd.t, "gamma")
    IN  InOrder(<<gamma_even, gamma_odd, gammas>>,
            [z |-> z,
             trace_term_coeffs |->
                Vec([j \in 1 .. context.trace_columns |->
                    Vec([k \in 1 .. n_offsets |-> gammas.vals[(j - 1) * n_offsets + k]])]),
             gamma_even |-> gamma_even.val,
             gamma_odd |-> gamma_odd.val])

\* reconstruct_deep_composition_poly_evaluation for one query index, on the
\* proof of a context with one of the frames; the call returns when none of
\* its divisors is zero
ReconstructDeep ==
    /\ pc = "z"
    /\ air.transition_exemptions = FibonacciExemptions
    /\ \E iota \in 0 .. (Len(domain.lde_roots_of_unity_coset) - 1) :
       \E offsets \in DeepOffsets :
          LET context == [air EXCEPT !.transition_offsets = offsets]
              opened == opened_proof(context)
              drawn == deep_challenges(context, challenges.z, transcript)
          IN  /\ ~reconstruct_deep_aborts(version, opened, domain, drawn, iota,
                                          opened.deep_poly_openings)
              /\ proof' = opened
              /\ challenges' = drawn
              /\ replay' =
                    [context |-> context,
                     iota |-> iota,
                     deep_poly_evaluation |->
                        reconstruct_deep_composition_poly_evaluation(
                            version, opened, domain, drawn, iota,
                            opened.deep_poly_openings)]
    /\ pc' = "reconstructed"
    /\ UNCHANGED <<input_vars, prover, prover_fri, prover_transcript, tamper,
                   transcript, steps_run, steps_passed, fri_checked, deep_checked,
                   result>>

\* fri_commit_phase over the LDE domain, for a number of layers from 1 to
\* the number of times the domain can be halved, plus one
FriCommitPhase ==
    /\ pc = "domain"
    /\ air.transition_exemptions = FibonacciExemptions
    /\ \E number_layers \in 1 .. (domain.lde_root_order + 1) :
       \E p_0 \in HelperPolynomials :
          prover_fri' =
              [number_layers |-> number_layers,
               made |-> fri_commit_phase(number_layers, p_0, transcript,
                                         domain.coset_offset,
                                         Len(domain.lde_roots_of_unity_coset))]
    /\ pc' = "fri_committed"
    /\ UNCHANGED <<input_vars, prover, proof, prover_transcript, tamper,
                   verifier_vars>>


\* The last k trace roots of unity g^(n-1), ..., g^(n-k)
exempted_roots(context, k) ==
    LET g == get_primitive_root_of_unity(trailing_zeros(context.trace_length))
    IN  {FPow(g, context.trace_length - j) : j \in 1 .. k}

\* C20: the default transition_exemptions returns one polynomial per
\* transition constraint, in the order of the constraints; for a constraint
\* with k <= trace_length exempted rows the polynomial is monic of degree k,
\* its roots are exactly the last k trace roots g^(n-1), ..., g^(n-k), and it
\* is the constant 1 when k = 0
TransitionExemptionsDefault ==
    pc = "exemptions" =>
        LET context == prover.context
            exemptions == prover.transition_exemptions
        IN  /\ Len(exemptions) = context.num_transition_constraints
            /\ \A i \in 1 .. context.num_transition_constraints :
                  LET k == context.transition_exemptions[i]
                      p == exemptions[i]
                  IN  /\ k <= context.trace_length
                      /\ Len(p) = k + 1
                      /\ p[k + 1] = 1
                      /\ {x \in FE : PolyEval(p, x) = 0} = exempted_roots(context, k)
                      /\ Cardinality(exempted_roots(context, k)) = k
                      /\ k = 0 => p = <<1>>

\* Two constraints with different exemption counts, neither zero nor the
\* whole trace, and one context with a constraint without exemptions
TransitionExemptionsWitness ==
    /\ pc = "exemptions"
    /\ prover.context.trace_length = 4
    /\ prover.context.transition_exemptions \in {<<3, 1>>, <<2, 0>>}
    /\ Len(prover.transition_exemptions) = 2

HelperNext ==
    \/ DomainNew
    \/ FriCommitPhase
    \/ TransitionExemptions
    \/ SampleZOod
    \/ VerifierDivisions
    \/ ReconstructDeep

HelperSpec == HelperInit /\ [][HelperNext]_vars

\* The Deep composition polynomial at the queried LDE point as stated, the
\* row k of the frame taken at z * g^(o_k), o_k the k-th transition offset
deep_formula ==
    LET context == replay.context
        upsilon == domain.lde_roots_of_unity_coset[replay.iota + 1]
        g == domain.trace_primitive_root
        z == challenges.z
        opening == proof.deep_poly_openings
        trace_terms ==
            FSum(Vec([j \in 1 .. context.trace_columns |->
                FSum(Vec([k \in 1 .. Len(context.transition_offsets) |->
                    FMul(challenges.trace_term_coeffs[j][k],
                         FDiv(FSub(opening.lde_trace_evaluations[j],
                                   proof.trace_ood_frame_evaluations[k][j]),
                              FSub(upsilon,
                                   FMul(z, FPow(g, context.transition_offsets[k])))))]))]))
        h_1_term == FMul(challenges.gamma_even,
                         FDiv(FSub(opening.lde_composition_poly_even_evaluation,
                                   proof.composition_poly_even_ood_evaluation),
                              FSub(upsilon, FMul(z, z))))
        h_2_term == FMul(challenges.gamma_odd,
                         FDiv(FSub(opening.lde_composition_poly_odd_evaluation,
                                   proof.composition_poly_odd_ood_evaluation),
                              FSub(upsilon, FMul(z, z))))
    IN  FAdd(trace_terms, FAdd(h_1_term, h_2_term))

\* The divisors of the formula as stated are not zero
deep_formula_defined ==
    \A k \in 1 .. Len(replay.context.transition_offsets) :
        domain.lde_roots_of_unity_coset[replay.iota + 1]
            # FMul(challenges.z,
                   FPow(domain.trace_primitive_root, replay.context.transition_offsets[k]))

\* C24: reconstruct_deep_composition_poly_evaluation returns the sum over
\* the trace columns j and the frame rows k of
\* gamma_(j,k) (t_j(upsilon) - t_j(z g^(o_k))) / (upsilon - z g^(o_k)), plus
\* the two terms of H1 and H2 over upsilon - z^2, o_k being the k-th entry of
\* the transition offsets of the AIR
DeepReconstructionFormula ==
    (pc = "reconstructed" /\ deep_formula_defined) =>
        replay.deep_poly_evaluation = deep_formula


\* The divisors of step 2 and of the Deep reconstruction for z and a query
\* index: z^n - 1, the boundary zerofiers at z, upsilon - z * g^k for each
\* row of the frame, upsilon - z^2
verifier_divisors(iota) ==
    <<FSub(FPow(challenges.z, air.trace_length), 1)>>
        \o boundary_c_i_evaluations_den(air, domain, challenges)
        \o deep_divisors(proof, domain, challenges, iota)
        \o <<FSub(domain.lde_roots_of_unity_coset[iota + 1],
                  FMul(challenges.z, challenges.z))>>

\* C15: for every z that sample_z_ood returned and every query index, when
\* one of the divisors of step 2 and of the Deep reconstruction is zero the
\* verifier does not divide: it returns false.
DivisorsNonzeroOrChecked ==
    pc = "divided" =>
        \A iota \in deep_checked :
            (\E i \in DOMAIN verifier_divisors(iota) : verifier_divisors(iota)[i] = 0)
                => result = "false"


(***************************************************************************)
(* Domain::new                                                              *)
(***************************************************************************)
lde_domain_size == air.trace_length * air.options.blowup_factor

trace_roots_distinct ==
    /\ Len(domain.trace_roots_of_unity) = air.trace_length
    /\ Cardinality(Range(domain.trace_roots_of_unity)) = air.trace_length

lde_coset_distinct ==
    /\ Len(domain.lde_roots_of_unity_coset) = lde_domain_size
    /\ Cardinality(Range(domain.lde_roots_of_unity_coset)) = lde_domain_size

lde_off_domain ==
    Range(domain.lde_roots_of_unity_coset) \cap Range(domain.trace_roots_of_unity) = {}

\* C16 as stated: for a power-of-two trace length, a power-of-two blowup
\* factor and a coset offset that is nonzero and not a trace root, the domain
\* holds trace_length distinct trace roots, blowup_factor * trace_length
\* distinct LDE points, and no LDE point is a trace root.
DomainInvariantAsStated ==
    pc # "context" => (trace_roots_distinct /\ lde_coset_distinct /\ lde_off_domain)

\* C16, amended: the trace roots are distinct, the LDE points are distinct,
\* and no LDE point is a trace root exactly when the coset offset is not a
\* power of the LDE root of unity, that is when its
\* (blowup_factor * trace_length)-th power is not 1; being nonzero and not a
\* trace root is not enough.
DomainInvariant ==
    pc # "context" =>
        /\ trace_roots_distinct
        /\ lde_coset_distinct
        /\ lde_off_domain <=> FPow(air.options.coset_offset, lde_domain_size) # 1

\* C16, the case: the domain of the tests (trace length 4, blowup factor 2,
\* coset offset 3), off the trace domain
DomainInvariantWitness ==
    /\ pc # "context"
    /\ air.trace_length = 4 /\ air.options.blowup_factor = 2
    /\ air.options.coset_offset = 3
    /\ FPow(air.options.coset_offset, lde_domain_size) # 1
    /\ trace_roots_distinct /\ lde_coset_distinct /\ lde_off_domain


(***************************************************************************)
(* sample_z_ood                                                             *)
(***************************************************************************)
\* The first count candidates the transcript t gives, one challenge each,
\* and the transcript after them
RECURSIVE z_candidates(_, _)
z_candidates(t, count) ==
    IF count = 0 THEN [vals |-> <<>>, t |-> t]
    ELSE LET c == transcript_to_field(t, "z")
             rest == z_candidates(c.t, count - 1)
         IN  [vals |-> <<c.val>> \o rest.vals, t |-> rest.t]

\* The challenges sample_z_ood took from the transcript
z_draws == Cardinality(draws_of(transcript, "z"))

z_outside_both_sets(z) ==
    /\ z \notin Range(domain.lde_roots_of_unity_coset)
    /\ z \notin Range(domain.trace_roots_of_unity)

\* C17: the element sample_z_ood returned is in neither the LDE coset nor
\* the trace roots of unity; it is the first candidate of the transcript
\* outside both sets, and the transcript gave exactly one challenge per
\* candidate turned down plus one for the value returned.
SampleZOodFirstOutside ==
    pc \in {"z", "divided"} =>
        LET candidates == z_candidates(NewTranscript(seed), z_draws)
        IN  /\ z_outside_both_sets(challenges.z)
            /\ z_draws >= 1
            /\ transcript.log = Times(z_draws, Drawn("z"))
            /\ transcript = candidates.t
            /\ candidates.vals[z_draws] = challenges.z
            /\ \A i \in 1 .. (z_draws - 1) : ~z_outside_both_sets(candidates.vals[i])

\* C17, the case: a call that turned down candidates (a point of the LDE
\* coset, then a trace root or the reverse) before it returned
SampleZOodWitness ==
    /\ pc = "z" /\ z_draws >= 3
    /\ z_outside_both_sets(challenges.z)
    /\ \E i, j \in 1 .. (z_draws - 1) :
          /\ z_candidates(NewTranscript(seed), z_draws).vals[i]
                \in Range(domain.trace_roots_of_unity)
          /\ z_candidates(NewTranscript(seed), z_draws).vals[j]
                \in Range(domain.lde_roots_of_unity_coset)
                        \ Range(domain.trace_roots_of_unity)


(***************************************************************************)
(* fri_commit_phase: the layers                                             *)
(***************************************************************************)
fri_layer(k) == prover_fri.made.fri_layer_list[k + 1]

\* C18: fri_commit_phase called with number_layers = L >= 1, domain size N
\* and coset offset c returns exactly L layers; layer k (k = 0 .. L-1) is
\* built over a domain of size N / 2^k with coset offset c^(2^k); the domain
\* of each layer is half the one before and its offset the square of the
\* one before.
FriLayerGeometry ==
    pc = "fri_committed" =>
        LET L == prover_fri.number_layers
            N == Len(domain.lde_roots_of_unity_coset)
        IN  /\ Len(prover_fri.made.fri_layer_list) = L
            /\ \A k \in 0 .. (L - 1) :
                  /\ fri_layer(k).domain_size = N \div Pow2(k)
                  /\ Len(fri_layer(k).evaluation) = N \div Pow2(k)
                  /\ fri_layer(k).coset_offset = FPow(domain.coset_offset, Pow2(k))
            /\ \A k \in 1 .. (L - 1) :
                  /\ 2 * fri_layer(k).domain_size = fri_layer(k - 1).domain_size
                  /\ fri_layer(k).coset_offset =
                        FMul(fri_layer(k - 1).coset_offset, fri_layer(k - 1).coset_offset)

\* C18, the case: three layers or more over a domain of 8 points or more
FriLayerGeometryWitness ==
    /\ pc = "fri_committed"
    /\ prover_fri.number_layers >= 3
    /\ Len(prover_fri.made.fri_layer_list) = prover_fri.number_layers
    /\ fri_layer(0).domain_size >= 8
    /\ fri_layer(2).domain_size = fri_layer(0).domain_size \div 4
    /\ fri_layer(2).coset_offset # fri_layer(0).coset_offset


(***************************************************************************)
(* The symmetric opening of a layer, prover and verifier.                   *)
(***************************************************************************)
\* C19: for every query index iota and every FRI layer k, the index
\* fri_query_phase opens layer k at is (iota + |D_k| / 2) mod |D_k|, the
\* index the verifier checks that opening at is the same, with the same
\* |D_k| = N0 / 2^k on both sides; the index is in 0 .. |D_k| - 1 and
\* differs from iota mod |D_k| whenever |D_k| >= 2.
SymmetricOpeningIndex ==
    pc = "fri_committed" =>
        LET N0 == Len(domain.lde_roots_of_unity_coset)
        IN  \A k \in 0 .. (prover_fri.number_layers - 1) : \A iota \in 0 .. (N0 - 1) :
                LET D_k == N0 \div Pow2(k)
                    opened == index_sym(iota, fri_layer(k))
                    checked == layer_evaluation_index_sym(domain.lde_root_order, k, iota)
                IN  /\ fri_layer(k).domain_size = D_k
                    /\ Pow2(domain.lde_root_order - k) = D_k
                    /\ opened = (iota + D_k \div 2) % D_k
                    /\ checked = opened
                    /\ opened \in 0 .. (D_k - 1)
                    /\ D_k >= 2 => opened # iota % D_k

\* C19, the case: a layer of the commit phase smaller than the query index,
\* opened by the prover where the verifier checks it
SymmetricOpeningIndexWitness ==
    /\ pc = "fri_committed" /\ prover_fri.number_layers >= 3
    /\ \E iota \in 0 .. (Len(domain.lde_roots_of_unity_coset) - 1) :
          /\ fri_layer(2).domain_size >= 2
          /\ iota >= fri_layer(2).domain_size
          /\ index_sym(iota, fri_layer(2))
                = layer_evaluation_index_sym(domain.lde_root_order, 2, iota)
          /\ index_sym(iota, fri_layer(2)) # index_sym(iota, fri_layer(0))

\* The polynomial after layer k of the commit phase: the next layer's, or
\* the last folded polynomial after the last layer
fri_next_poly(k) ==
    IF k + 1 < prover_fri.number_layers THEN fri_layer(k + 1).poly
    ELSE prover_fri.made.last_poly

\* x_k = (coset_offset * w^iota)^(2^k), w the primitive root of the LDE domain
fri_evaluation_point(k, iota) ==
    FPow(FMul(domain.coset_offset,
              FPow(get_primitive_root_of_unity(domain.lde_root_order), iota)),
         Pow2(k))

\* C25: at layer k of a query with index iota the verifiers replace v by
\* (v + v_sym) / 2 + zeta_k (v - v_sym) / (2 x_k); on the layers of
\* fri_commit_phase, from v = p_0(x_0) and with v_sym = p_k(-x_k), the new v
\* is p_(k+1)(x_(k+1)) at every layer, p_(k+1) = p_even + zeta_k p_odd
CoLinearityFold ==
    pc = "fri_committed" =>
        \A iota \in 0 .. (Len(domain.lde_roots_of_unity_coset) - 1) :
            LET L == prover_fri.number_layers
                x(k) == fri_evaluation_point(k, iota)
                v_sym(k) == PolyEval(fri_layer(k).poly, FNeg(x(k)))
                zeta(k) == prover_fri.made.zetas[k + 1]
                legacy_v[k \in 0 .. L] ==
                    IF k = 0 THEN PolyEval(fri_layer(0).poly, x(0))
                    ELSE legacy_fold(legacy_v[k - 1], v_sym(k - 1), zeta(k - 1), x(k - 1))
                starks_v[k \in 0 .. L] ==
                    IF k = 0 THEN PolyEval(fri_layer(0).poly, x(0))
                    ELSE starks_fold(starks_v[k - 1], v_sym(k - 1), zeta(k - 1),
                                     FInv(x(k - 1)))
            IN  \A k \in 0 .. (L - 1) :
                    /\ x(k + 1) = FMul(x(k), x(k))
                    /\ fri_next_poly(k) = fold_polynomial(fri_layer(k).poly, zeta(k))
                    /\ legacy_v[k + 1] = PolyEval(fri_next_poly(k), x(k + 1))
                    /\ starks_v[k + 1] = PolyEval(fri_next_poly(k), x(k + 1))
                    /\ fri_layer(k).domain_size >= 2 =>
                          /\ fri_layer(k).evaluation[(iota % fri_layer(k).domain_size) + 1]
                                = PolyEval(fri_layer(k).poly, x(k))
                          /\ fri_layer(k).evaluation[index_sym(iota, fri_layer(k)) + 1]
                                = v_sym(k)

\* A commit phase of several layers on a polynomial with odd coefficients,
\* a challenge that is not zero, and a point where the polynomial differs
\* from its value at the opposite point
CoLinearityFoldWitness ==
    /\ pc = "fri_committed"
    /\ prover_fri.number_layers >= 3
    /\ Len(fri_layer(0).poly) = 4
    /\ prover_fri.made.zetas[1] # 0
    /\ prover_fri.made.zetas[2] # 0
    /\ \E iota \in 0 .. (Len(domain.lde_roots_of_unity_coset) - 1) :
          PolyEval(fri_layer(0).poly, fri_evaluation_point(0, iota))
              # PolyEval(fri_layer(0).poly, FNeg(fri_evaluation_point(0, iota)))

\* C27: fri_commit_phase returns as last_value the constant coefficient of
\* the fold of the last committed layer's polynomial with one further
\* challenge, zero when the fold has no coefficients; it draws that
\* challenge after the last root, and the append of the value is the last
\* thing it does to the transcript
FriLastValue ==
    pc = "fri_committed" =>
        LET made == prover_fri.made
            L == prover_fri.number_layers
            log == made.t.log
            folded == fold_polynomial(fri_layer(L - 1).poly, made.zetas[L])
        IN  /\ Len(made.zetas) = L
            /\ made.last_value = IF folded = <<>> THEN 0 ELSE folded[1]
            /\ Len(log) = Len(transcript.log) + 2 * L + 1
            /\ SubSeq(log, 1, Len(transcript.log)) = transcript.log
            /\ log[Len(log)] = Appended("last_value", to_bytes_be(made.last_value))
            /\ log[Len(log) - 1] = Drawn("zeta")
            /\ log[Len(log) - 2] =
                  Appended("fri_root", NodeBytes(MerkleRoot(fri_layer(L - 1).merkle_tree)))
            /\ made.t = TranscriptAppend(made.before_last_value, "last_value",
                                         to_bytes_be(made.last_value))

\* A commit phase of several layers whose last value is not zero and is
\* not the constant coefficient of the last committed layer's polynomial
FriLastValueWitness ==
    /\ pc = "fri_committed"
    /\ prover_fri.number_layers >= 2
    /\ prover_fri.made.last_value # 0
    /\ prover_fri.made.last_value
          # PolyCoef(fri_layer(prover_fri.number_layers - 1).poly, 1)

(***************************************************************************)
(* ConstraintEvaluator::evaluate with the parallel feature: the exemption   *)
(* evaluations, the degree adjustments and the evaluations per LDE index    *)
(* are each handed to workers, which finish in any order; the collection    *)
(* of each puts the results back by index.  In prover:                      *)
(*   call: what evaluate was called with                                    *)
(*   exemptions, adjustments, evaluations_t: the results the workers of     *)
(*     the three iterators have produced so far, by index                   *)
(*   in_order: whether the workers have finished in index order so far,     *)
(*     as the sequential iterators do                                       *)
(***************************************************************************)
EvaluatorInit ==
    /\ version = "starks"
    /\ air \in {a \in AIRs : a.options.fri_number_of_queries = 1}
    /\ domain = DomainOf(air)
    /\ seed \in 0 .. MaxSeed
    /\ strategy = "honest"
    /\ prover = [round |-> 2, call |-> EvaluatorCall(air, domain, seed),
                 exemptions |-> <<>>, adjustments |-> <<>>,
                 evaluations_t |-> <<>>, in_order |-> TRUE]
    /\ prover.call.defined
    /\ proof = None
    /\ prover_fri = None
    /\ prover_transcript = NewTranscript(seed)
    /\ tamper = "none"
    /\ pc = "evaluate"
    /\ transcript = NewTranscript(seed)
    /\ challenges = None
    /\ replay = None
    /\ steps_run = <<>>
    /\ steps_passed = {}
    /\ fri_checked = {}
    /\ deep_checked = {}
    /\ result = "none"

\* A result a worker hands in, kept under its index
Handed(results, index, value) ==
    [k \in DOMAIN results \cup {index} |-> IF k = index THEN value ELSE results[k]]

\* The worker is the one a sequential iterator would run next
NextInOrder(results, indices, index) ==
    \A k \in indices \ DOMAIN results : index <= k

\* The results of an iterator, collected: a vector in index order
Collected(results, first, last) ==
    Vec([k \in 1 .. (last - first + 1) |-> results[first + k - 1]])

EvaluatorUnchanged ==
    UNCHANGED <<input_vars, proof, prover_fri, prover_transcript, tamper, verifier_vars>>

\* evaluate up to the exemptions: the boundary evaluations, made in order
EvaluateBoundary ==
    /\ pc = "evaluate"
    /\ prover' = [prover EXCEPT !.round = 3] @@
                 [boundary_evaluation |->
                    boundary_evaluation(prover.call.evaluator, domain,
                                        prover.call.boundary_coeffs)]
    /\ pc' = "exemptions"
    /\ EvaluatorUnchanged

\* What the worker of exemption c returns
ExemptionTask(c) ==
    evaluate_transition_exemption(transition_exemptions(air)[c], domain)

\* One worker of evaluate_transition_exemptions
ExemptionWorker ==
    /\ pc = "exemptions"
    /\ \E c \in (1 .. Len(transition_exemptions(air))) \ DOMAIN prover.exemptions :
          prover' = [prover EXCEPT
                        !.exemptions = Handed(@, c, ExemptionTask(c)),
                        !.in_order = @ /\ NextInOrder(prover.exemptions,
                                            1 .. Len(transition_exemptions(air)), c)]
    /\ UNCHANGED pc
    /\ EvaluatorUnchanged

\* collect() of evaluate_transition_exemptions
ExemptionsCollected ==
    /\ pc = "exemptions"
    /\ DOMAIN prover.exemptions = 1 .. Len(transition_exemptions(air))
    /\ prover' = [prover EXCEPT !.round = 4] @@
                 [transition_exemptions_evaluations |->
                    Collected(prover.exemptions, 1, Len(transition_exemptions(air)))]
    /\ pc' = "degree_adjustments"
    /\ EvaluatorUnchanged

\* What the worker of one transition degree returns
DegreeAdjustmentTask(transition_degree) ==
    degree_adjustment_row(air, domain, transition_degree)

\* One worker of degree_adjustments_iter
DegreeAdjustmentWorker ==
    /\ pc = "degree_adjustments"
    /\ \E d \in (1 .. max_transition_degree(air)) \ DOMAIN prover.adjustments :
          prover' = [prover EXCEPT
                        !.adjustments = Handed(@, d, DegreeAdjustmentTask(d)),
                        !.in_order = @ /\ NextInOrder(prover.adjustments,
                                            1 .. max_transition_degree(air), d)]
    /\ UNCHANGED pc
    /\ EvaluatorUnchanged

\* collect() of the degree adjustments, then the zerofier evaluations, made
\* in order
DegreeAdjustmentsCollected ==
    /\ pc = "degree_adjustments"
    /\ DOMAIN prover.adjustments = 1 .. max_transition_degree(air)
    /\ prover' = [prover EXCEPT !.round = 5] @@
                 [degree_adjustments |->
                    Collected(prover.adjustments, 1, max_transition_degree(air)),
                  transition_zerofiers_inverse_evaluations |->
                    transition_zerofiers_inverse_evaluations(air,
                        prover.transition_exemptions_evaluations)]
    /\ pc' = "evaluations_t"
    /\ EvaluatorUnchanged

\* The worker of LDE index i takes its frame from the number of workers
\* that finished before it
TransitionTaskByArrival(i) ==
    evaluations_t_at(prover.call.evaluator, prover.call.lde_trace, prover,
                     prover.call.transition_coeffs, prover.call.rap_challenges,
                     Cardinality(DOMAIN prover.evaluations_t))

\* What the worker of LDE index i (from 0) returns
TransitionTask(i) ==
    evaluations_t_at(prover.call.evaluator, prover.call.lde_trace, prover,
                     prover.call.transition_coeffs, prover.call.rap_challenges, i)

\* One worker of evaluations_t_iter
TransitionWorker ==
    /\ pc = "evaluations_t"
    /\ \E i \in (0 .. (Len(domain.lde_roots_of_unity_coset) - 1))
                    \ DOMAIN prover.evaluations_t :
          prover' = [prover EXCEPT
                        !.evaluations_t = Handed(@, i, TransitionTask(i)),
                        !.in_order = @ /\ NextInOrder(prover.evaluations_t,
                                0 .. (Len(domain.lde_roots_of_unity_coset) - 1), i)]
    /\ UNCHANGED pc
    /\ EvaluatorUnchanged

\* collect() of evaluations_t: evaluation_table.evaluations_acc
EvaluationsCollected ==
    /\ pc = "evaluations_t"
    /\ DOMAIN prover.evaluations_t = 0 .. (Len(domain.lde_roots_of_unity_coset) - 1)
    /\ prover' = [prover EXCEPT !.round = 6] @@
                 [evaluations_acc |->
                    Collected(prover.evaluations_t, 0,
                              Len(domain.lde_roots_of_unity_coset) - 1)]
    /\ pc' = "evaluated"
    /\ EvaluatorUnchanged

EvaluatorNext ==
    \/ EvaluateBoundary
    \/ ExemptionWorker
    \/ ExemptionsCollected
    \/ DegreeAdjustmentWorker
    \/ DegreeAdjustmentsCollected
    \/ TransitionWorker
    \/ EvaluationsCollected

EvaluatorSpec == EvaluatorInit /\ [][EvaluatorNext]_vars

\* evaluate with every iterator sequential
SerialEvaluate ==
    evaluate(prover.call.evaluator, prover.call.lde_trace, domain,
             prover.call.transition_coeffs, prover.call.boundary_coeffs,
             prover.call.rap_challenges)

\* C22: evaluate returns the same vector, the same value at each LDE index,
\* whether its three iterators run in order or are handed to workers that
\* finish in any order: every result a worker has handed in is the one the
\* sequential run has at that index, and so is the table collected at the end
ParallelEqualsSerial ==
    /\ pc \in {"exemptions", "degree_adjustments", "evaluations_t", "evaluated"} =>
          \A c \in DOMAIN prover.exemptions :
              prover.exemptions[c] =
                  evaluate_transition_exemptions(transition_exemptions(air), domain)[c]
    /\ pc \in {"degree_adjustments", "evaluations_t", "evaluated"} =>
          \A d \in DOMAIN prover.adjustments :
              prover.adjustments[d] = degree_adjustments(air, domain)[d]
    /\ pc \in {"evaluations_t", "evaluated"} =>
          \A i \in DOMAIN prover.evaluations_t :
              prover.evaluations_t[i] = SerialEvaluate[i + 1]
    /\ pc = "evaluated" => prover.evaluations_acc = SerialEvaluate

\* An evaluation whose workers did not finish in index order, collected
ParallelEqualsSerialWitness ==
    /\ pc = "evaluated"
    /\ ~prover.in_order
    /\ Len(prover.evaluations_acc) = Len(domain.lde_roots_of_unity_coset)
    /\ \E i \in DOMAIN prover.evaluations_acc : prover.evaluations_acc[i] # 0

\* The term the boundary quotient of one constraint (col, step, value) has
\* at LDE index i: (t_col(x) - value) * (alpha x^(D - n) + beta) / (x - g^step)
boundary_quotient_term(index, i) ==
    LET constraint == prover.call.evaluator.boundary_constraints[index]
        x == domain.lde_roots_of_unity_coset[i + 1]
        D == composition_poly_degree_bound(air)
    IN  FDiv(FMul(FSub(prover.call.lde_trace[constraint.col + 1][i + 1],
                       constraint.value),
                  FAdd(FMul(prover.call.boundary_coeffs[index][1],
                            FPow(x, D - air.trace_length)),
                       prover.call.boundary_coeffs[index][2])),
             FSub(x, FPow(domain.trace_primitive_root, constraint.step)))

\* C23: for every boundary constraint (c, r, v) and every LDE point x the
\* term evaluate adds is (t_c(x) - v) * (alpha x^(D - n) + beta) / (x - g^r),
\* the divisor being the zerofier of the constraint's own row, and the
\* boundary evaluation at x is the sum of these terms
BoundaryQuotientOwnRow ==
    pc \in {"exemptions", "degree_adjustments", "evaluations_t", "evaluated"} =>
        \A i \in 0 .. (Len(domain.lde_roots_of_unity_coset) - 1) :
            /\ \A index \in DOMAIN prover.call.evaluator.boundary_constraints :
                  boundary_term(prover.call.evaluator, domain,
                                prover.call.boundary_coeffs, index, i)
                      = boundary_quotient_term(index, i)
            /\ prover.boundary_evaluation[i + 1] =
                  FSum(Vec([index \in DOMAIN prover.call.evaluator.boundary_constraints |->
                      boundary_quotient_term(index, i)]))

(***************************************************************************)
(* The degree adjustments: the unsigned subtractions the constraint         *)
(* evaluator and the two verifiers make for the exponents D - n and         *)
(* D - n * (deg - 1), for the AIRs of the repository.  In prover:           *)
(*   site: which of the three computes; degrees: the degrees it goes        *)
(*   through; boundary, adjustments: the subtractions made so far           *)
(***************************************************************************)
\* The trace lengths of the contexts
AdjustmentTraceLengths == {4, 8, 16}

\* The AIRs of the repository: CairoAIR with and without the range-check
\* builtin, simple Fibonacci and the Fibonacci RAP with the degrees of
\* their tests
AdjustmentContexts ==
    {CairoAIR_new(ProofOptionsOf(1), n, n - 1, rc) :
        n \in AdjustmentTraceLengths, rc \in BOOLEAN}
    \cup {[FibonacciAIR(1) EXCEPT !.trace_length = n] : n \in AdjustmentTraceLengths}
    \cup {[FibonacciRAP(1) EXCEPT !.trace_length = n] : n \in AdjustmentTraceLengths}

AdjustmentSites == {"evaluator", "legacy", "starks"}

\* a - b in usize: below zero the debug build panics and the release build
\* wraps around; wrapped tells which side of zero the difference is
usize_sub(a, b) == [value |-> a - b, wrapped |-> a < b]

\* The degrees a site computes an exponent for: every degree from 1 to the
\* largest in the evaluator, the degree of each constraint in the verifiers
adjusted_degrees(site, context) ==
    IF site = "evaluator"
    THEN [d \in 1 .. max_transition_degree(context) |-> d]
    ELSE context.transition_degrees

\* composition_poly_degree_bound - trace_length * (transition_degree - 1):
\* the two subtractions, the inner one first
degree_adjustment(context, transition_degree) ==
    LET inner == usize_sub(transition_degree, 1)
        outer == usize_sub(composition_poly_degree_bound(context),
                           context.trace_length * inner.value)
    IN  [value |-> outer.value, wrapped |-> inner.wrapped \/ outer.wrapped]

AdjustmentInit ==
    /\ version \in Versions
    /\ air \in AdjustmentContexts
    /\ domain = None
    /\ seed = 0
    /\ strategy = "honest"
    /\ \E site \in AdjustmentSites :
          /\ site \in Versions => site = version
          /\ site = "evaluator" => version = "starks"
          /\ prover = [round |-> 2, site |-> site,
                       degrees |-> adjusted_degrees(site, air),
                       boundary |-> None, adjustments |-> <<>>]
    /\ proof = None
    /\ prover_fri = None
    /\ prover_transcript = NewTranscript(seed)
    /\ tamper = "none"
    /\ pc = "adjust_boundary"
    /\ transcript = NewTranscript(seed)
    /\ challenges = None
    /\ replay = None
    /\ steps_run = <<>>
    /\ steps_passed = {}
    /\ fri_checked = {}
    /\ deep_checked = {}
    /\ result = "none"

\* boundary_term_degree_adjustment = composition_poly_degree_bound - trace_length
BoundaryTermDegreeAdjustment ==
    /\ pc = "adjust_boundary"
    /\ LET made == usize_sub(composition_poly_degree_bound(air), air.trace_length)
       IN  /\ prover' = [prover EXCEPT !.boundary = made]
           /\ \E overflow_checks \in BOOLEAN :
                 IF made.wrapped /\ overflow_checks
                 THEN pc' = "done" /\ result' = "abort"
                 ELSE pc' = "adjust_transitions" /\ UNCHANGED result
    /\ UNCHANGED <<input_vars, proof, prover_fri, prover_transcript, tamper,
                   transcript, challenges, replay, steps_run, steps_passed,
                   fri_checked, deep_checked>>

\* The degree adjustment of the next degree of the site
TransitionDegreeAdjustment ==
    /\ pc = "adjust_transitions"
    /\ LET i == Len(prover.adjustments) + 1
           made == degree_adjustment(air, prover.degrees[i])
       IN  /\ i <= Len(prover.degrees)
           /\ prover' = [prover EXCEPT !.adjustments = Append(@, made)]
           /\ \E overflow_checks \in BOOLEAN :
                 IF made.wrapped /\ overflow_checks
                 THEN pc' = "done" /\ result' = "abort"
                 ELSE /\ pc' = IF i = Len(prover.degrees) THEN "adjusted"
                               ELSE "adjust_transitions"
                      /\ UNCHANGED result
    /\ UNCHANGED <<input_vars, proof, prover_fri, prover_transcript, tamper,
                   transcript, challenges, replay, steps_run, steps_passed,
                   fri_checked, deep_checked>>

AdjustmentNext ==
    \/ BoundaryTermDegreeAdjustment
    \/ TransitionDegreeAdjustment

AdjustmentSpec == AdjustmentInit /\ [][AdjustmentNext]_vars

\* C26: for every AIR of the repository the unsigned D - trace_length and
\* D - trace_length * (deg_i - 1) are computed without going below zero,
\* for every transition constraint, in the constraint evaluator and in both
\* verifiers
DegreeAdjustmentsNeverUnderflow ==
    /\ result # "abort"
    /\ pc \in {"adjust_transitions", "adjusted"} =>
          /\ ~prover.boundary.wrapped
          /\ prover.boundary.value
                = composition_poly_degree_bound(air) - air.trace_length
          /\ prover.boundary.value >= 0
          /\ \A i \in DOMAIN prover.adjustments :
                /\ ~prover.adjustments[i].wrapped
                /\ prover.degrees[i] >= 1
                /\ prover.adjustments[i].value
                      = composition_poly_degree_bound(air)
                            - air.trace_length * (prover.degrees[i] - 1)
                /\ prover.adjustments[i].value >= 0
    /\ pc = "adjusted" => Len(prover.adjustments) = Len(prover.degrees)

\* The Cairo AIR with the builtin, every one of its 50 constraints gone
\* through by a verifier, the constraints of degree 3 with the exponent zero
DegreeAdjustmentsWitness ==
    /\ pc = "adjusted"
    /\ air.name = "CairoAIR"
    /\ air.has_rc_builtin
    /\ prover.site = "starks"
    /\ Len(prover.adjustments) = 50
    /\ \E i \in DOMAIN prover.adjustments :
          prover.degrees[i] = 3 /\ prover.adjustments[i].value = 0
    /\ prover.boundary.value = air.trace_length

(***************************************************************************)
(* The Fibonacci RAP on its own: fibonacci_rap_trace on initial values and  *)
(* trace lengths of a small family, and build_auxiliary_trace on the trace  *)
(* it makes, for every gamma of the field.                                  *)
(***************************************************************************)
RapInitialValues == (0 .. 3) \X (0 .. 3)
RapTraceLengths == 2 .. 9

RapInit ==
    /\ version \in Versions
    /\ air = FibonacciRAP(1)
    /\ domain = None
    /\ seed = 0
    /\ strategy = "honest"
    /\ prover = [round |-> 0]
    /\ proof = None
    /\ prover_fri = None
    /\ prover_transcript = NewTranscript(seed)
    /\ tamper = "none"
    /\ pc = "rap_trace"
    /\ transcript = NewTranscript(seed)
    /\ challenges = None
    /\ replay = None
    /\ steps_run = <<>>
    /\ steps_passed = {}
    /\ fri_checked = {}
    /\ deep_checked = {}
    /\ result = "none"

\* fibonacci_rap_trace
FibonacciRapTrace ==
    /\ pc = "rap_trace"
    /\ \E initial_values \in RapInitialValues, trace_length \in RapTraceLengths :
          prover' = [round |-> 0,
                     initial_values |-> initial_values,
                     trace_length |-> trace_length,
                     main |-> fibonacci_rap_trace(initial_values, trace_length)]
    /\ pc' = "rap_main"
    /\ UNCHANGED <<input_vars, proof, prover_fri, prover_transcript, tamper,
                   verifier_vars>>

\* build_auxiliary_trace on the main trace, for a challenge gamma; the
\* division by zero has no quotient, and the call returns no column
BuildAuxiliaryTrace ==
    /\ pc = "rap_main"
    /\ \E gamma \in FE :
          IF AuxTraceDefined(air, prover.main, gamma)
          THEN /\ prover' = [prover EXCEPT !.round = 1] @@
                     [gamma |-> gamma,
                      aux |-> build_auxiliary_trace(air, prover.main, gamma)]
               /\ pc' = "rap_aux"
               /\ UNCHANGED result
          ELSE /\ prover' = [prover EXCEPT !.round = 1] @@ [gamma |-> gamma]
               /\ pc' = "done"
               /\ result' = "abort"
    /\ UNCHANGED <<input_vars, proof, prover_fri, prover_transcript, tamper,
                   transcript, challenges, replay, steps_run, steps_passed,
                   fri_checked, deep_checked>>

RapNext ==
    \/ FibonacciRapTrace
    \/ BuildAuxiliaryTrace

RapSpec == RapInit /\ [][RapNext]_vars

\* C29: build_auxiliary_trace returns one column with as many rows as the
\* main trace, z_0 = 1 and z_(i+1) = z_i * (a_i + gamma) / (b_i + gamma); on
\* a trace of fibonacci_rap_trace, whose second column is the first with
\* its first and last Fibonacci entries swapped, the last entry is 1 for
\* every gamma at which no denominator is zero
RunningProductEndsAtOne ==
    pc = "rap_aux" =>
        LET a == prover.main[1]
            b == prover.main[2]
            n == prover.trace_length
            z == prover.aux[1]
        IN  /\ Len(prover.aux) = 1
            /\ Len(z) = Len(a) /\ Len(b) = Len(a)
            /\ z[1] = 1
            /\ \A i \in 1 .. (Len(a) - 1) :
                  /\ FAdd(b[i], prover.gamma) # 0
                  /\ FMul(z[i + 1], FAdd(b[i], prover.gamma))
                        = FMul(z[i], FAdd(a[i], prover.gamma))
            /\ b[1] = a[n] /\ b[n] = a[1]
            /\ \A i \in 1 .. Len(a) : i \notin {1, n} => b[i] = a[i]
            /\ z[Len(z)] = 1

\* A running product over a padded trace of a Fibonacci sequence whose
\* first and last entries differ: it leaves 1 and comes back to 1
RunningProductWitness ==
    /\ pc = "rap_aux"
    /\ prover.trace_length >= 4
    /\ Len(prover.main[1]) > prover.trace_length + 1
    /\ prover.main[1][1] # prover.main[1][prover.trace_length]
    /\ prover.aux[1][2] # 1
    /\ prover.aux[1][prover.trace_length] # 1
    /\ prover.aux[1][Len(prover.aux[1])] = 1

(***************************************************************************)
(* The public memory of the Cairo AIR: PublicInputs::from_regs_and_mem on   *)
(* small programs and output segments, and                                  *)
(* add_pub_memory_in_public_input_section on the address and value columns  *)
(* of a trace.                                                              *)
(***************************************************************************)
\* The program sizes, and how far after the program the output segment
\* starts and how many cells it has
ProgramSizes == 0 .. 3
OutputGaps == 1 .. 2
OutputSizes == 0 .. 2

\* memory_segments.get(&MemorySegment::Output): None, or the range start..end
OutputRanges(program_size) ==
    {None} \cup {[start |-> program_size + gap, end |-> program_size + gap + size] :
                    gap \in OutputGaps, size \in OutputSizes}

\* The Cairo memories: a value at every address
CairoMemories ==
    {[address \in 0 .. 8 |-> (7 * address + 3) % P],
     [address \in 0 .. 8 |-> (address * address + 1) % P]}

\* The rows of the address and value columns before the public input
\* section, and the rows the trace has beyond or short of the public memory
TraceRows == {<<>>, <<[a |-> 1, v |-> 9]>>, <<[a |-> 1, v |-> 9], [a |-> 5, v |-> 0]>>,
              <<[a |-> 0, v |-> 7], [a |-> 1, v |-> 9]>>}

\* FieldElement::from(u64)
FE_from(value) == value % P

\* The addresses of a Range<u64>, in increasing order
range_addresses(output_range) ==
    [i \in 1 .. (output_range.end - output_range.start) |-> output_range.start + i - 1]

\* PublicInputs::from_regs_and_mem: memory_segments and public_memory
from_regs_and_mem(memory, program_size, memory_segments) ==
    LET output_range == memory_segments.Output
        keys == (1 .. program_size) \cup
                (IF output_range = None THEN {}
                 ELSE Range(range_addresses(output_range)))
    IN  [memory_segments |-> memory_segments,
         public_memory |-> [address \in {FE_from(k) : k \in keys} |->
                               memory[CHOOSE k \in keys : FE_from(k) = address]]]

\* The public memory addresses with the output segment before the program
get_pub_memory_addrs_output_first(output_range, public_input) ==
    LET public_memory_len == Cardinality(DOMAIN public_input.public_memory)
    IN  IF output_range # None
        THEN LET output_section == usize_sub(output_range.end, output_range.start)
                 program_section == usize_sub(public_memory_len, output_section.value)
             IN  [wrapped |-> output_section.wrapped \/ program_section.wrapped,
                  addrs |-> [i \in 1 .. Len(range_addresses(output_range)) |->
                                FE_from(range_addresses(output_range)[i])]
                            \o [i \in 1 .. program_section.value |-> FE_from(i)]]
        ELSE [wrapped |-> FALSE,
              addrs |-> [i \in 1 .. public_memory_len |-> FE_from(i)]]

\* get_pub_memory_addrs: 1..=program_section, then the output range
get_pub_memory_addrs(output_range, public_input) ==
    LET public_memory_len == Cardinality(DOMAIN public_input.public_memory)
    IN  IF output_range # None
        THEN LET output_section == usize_sub(output_range.end, output_range.start)
                 program_section == usize_sub(public_memory_len, output_section.value)
             IN  [wrapped |-> output_section.wrapped \/ program_section.wrapped,
                  addrs |-> [i \in 1 .. program_section.value |-> FE_from(i)]
                            \o [i \in 1 .. Len(range_addresses(output_range)) |->
                                   FE_from(range_addresses(output_range)[i])]]
        ELSE [wrapped |-> FALSE,
              addrs |-> [i \in 1 .. public_memory_len |-> FE_from(i)]]

\* add_pub_memory_in_public_input_section: (a_aux, v_aux), or the call
\* aborts: on a section that starts before the vector, on an address
\* public_memory does not hold, on a value vector too short
add_pub_memory_in_public_input_section(addresses, values, public_input) ==
    LET public_input_section ==
            usize_sub(Len(addresses), Cardinality(DOMAIN public_input.public_memory))
        output_range == public_input.memory_segments.Output
        pub_memory_addrs == get_pub_memory_addrs(output_range, public_input)
        a_aux == SubSeq(addresses, 1, public_input_section.value)
                    \o pub_memory_addrs.addrs
        aborts ==
            \/ public_input_section.wrapped
            \/ pub_memory_addrs.wrapped
            \/ \E i \in (public_input_section.value + 1) .. Len(a_aux) :
                  \/ a_aux[i] \notin DOMAIN public_input.public_memory
                  \/ i > Len(values)
    IN  IF aborts THEN [aborts |-> TRUE]
        ELSE [aborts |-> FALSE,
              a_aux |-> a_aux,
              v_aux |-> [i \in 1 .. Len(values) |->
                           IF i > public_input_section.value
                           THEN public_input.public_memory[a_aux[i]]
                           ELSE values[i]]]

PublicMemoryInit ==
    /\ version \in Versions
    /\ air \in {CairoAIR_new([blowup_factor |-> 2, fri_number_of_queries |-> 1,
                                coset_offset |-> 3, grinding_factor |-> 1],
                               16, 1, has_rc_builtin) : has_rc_builtin \in BOOLEAN}
    /\ domain = None
    /\ seed = 0
    /\ strategy = "honest"
    /\ prover = [round |-> 0]
    /\ proof = None
    /\ prover_fri = None
    /\ prover_transcript = NewTranscript(seed)
    /\ tamper = "none"
    /\ pc = "regs_and_mem"
    /\ transcript = NewTranscript(seed)
    /\ challenges = None
    /\ replay = None
    /\ steps_run = <<>>
    /\ steps_passed = {}
    /\ fri_checked = {}
    /\ deep_checked = {}
    /\ result = "none"

\* PublicInputs::from_regs_and_mem
FromRegsAndMem ==
    /\ pc = "regs_and_mem"
    /\ \E program_size \in ProgramSizes, memory \in CairoMemories :
       \E output_range \in OutputRanges(program_size) :
          prover' = [round |-> 0,
                     program_size |-> program_size,
                     public_input |->
                        from_regs_and_mem(memory, program_size,
                                          [Output |-> output_range])]
    /\ pc' = "public_input"
    /\ UNCHANGED <<input_vars, proof, prover_fri, prover_transcript, tamper,
                   verifier_vars>>

\* add_pub_memory_in_public_input_section on the columns of a trace: the
\* rows of the execution, then zeros for the public input section, which
\* is as long as the public memory, longer, or one row short of it
AddPubMemory ==
    /\ pc = "public_input"
    /\ \E rows \in TraceRows, spare \in -1 .. 1 :
          LET public_memory_len == Cardinality(DOMAIN prover.public_input.public_memory)
              zeros == [i \in 1 .. Max(public_memory_len + spare, 0) |-> 0]
              addresses == [i \in 1 .. Len(rows) |-> rows[i].a] \o zeros
              values == [i \in 1 .. Len(rows) |-> rows[i].v] \o zeros
              made == add_pub_memory_in_public_input_section(addresses, values,
                                                             prover.public_input)
          IN  /\ prover' = [prover EXCEPT !.round = 1] @@
                    [addresses |-> addresses, values |-> values, made |-> made]
              /\ IF made.aborts
                 THEN pc' = "done" /\ result' = "abort"
                 ELSE pc' = "pub_memory_added" /\ UNCHANGED result
    /\ UNCHANGED <<input_vars, proof, prover_fri, prover_transcript, tamper,
                   transcript, challenges, replay, steps_run, steps_passed,
                   fri_checked, deep_checked>>

PublicMemoryNext ==
    \/ FromRegsAndMem
    \/ AddPubMemory

PublicMemorySpec == PublicMemoryInit /\ [][PublicMemoryNext]_vars

=============================================================================
